---- MODULE Spec2Model ----
(***************************************************************************)
(* Model of jeremy95100/automatisation_rapport.                            *)
(*                                                                         *)
(*   src/remplace_rapport.py  the document pipeline (process_document and  *)
(*                            the passes it calls)                         *)
(*   src/app.py               the FastAPI facade (/generate, /preview,     *)
(*                            /events, doc_lock, listeners)                *)
(*                                                                         *)
(* A text is a sequence of tokens.  A token is a string: a placeholder     *)
(* such as "{a}" (one match of PLACEHOLDER_PATTERN), a word, a blank, a    *)
(* control character.  Because a placeholder is delimited by its braces,   *)
(* str.replace and the `in` test on texts whose keys are placeholders act  *)
(* token by token, which is how they are computed here.                    *)
(*                                                                         *)
(* A document is a record: header paragraphs, header tables, body blocks   *)
(* (paragraphs and tables, in document order), the next fresh identity and *)
(* a flag telling that a pass has raised.  Every paragraph and table has an   *)
(* identity (`id`), the counterpart of the lxml element the code holds.    *)
(*                                                                         *)
(* Two specifications share the variables:                                 *)
(*   SpecDoc  one /generate request followed through the passes of         *)
(*            process_document, for every template, mapping and decisions  *)
(*            list of the bounded input sets;                              *)
(*   Spec     the server: concurrent /generate and /preview requests,      *)
(*            doc_lock, the output file, the listeners of /events.         *)
(***************************************************************************)
EXTENDS Naturals, Sequences, FiniteSets, TLC

(***************************************************************************)
(* Bounds of the model.                                                    *)
(***************************************************************************)
\* Longest template body, in blocks.
MaxBlocks == 3
\* Longest decisions list of a payload.
MaxDecisions == 2
\* Largest request followed: blocks of the template plus items of the payload.
MaxInputSize == 5

(***************************************************************************)
(* Texts.                                                                  *)
(***************************************************************************)
\* A character lxml rejects in add_run ("All strings must be XML compatible").
CtrlChar == "<0x01>"
Blank == " "

\* DEFAULT_ANALYSIS_TEMPLATE = ""
DEFAULT_ANALYSIS_TEMPLATE == <<>>
\* "__DEFAULT__" of generate and "__KEEP_TITLE_ONLY__" of apply_heading_decisions
DefaultSentinel == <<"__DEFAULT__">>
KeepTitleOnly == <<"__KEEP_TITLE_ONLY__">>

\* `not text or not text.strip()`
IsBlankText(t) == \A i \in 1..Len(t) : t[i] = Blank

\* `old in text`
\* `old in text`; the empty string is in every text
Contains(t, old) == old = "" \/ \E i \in 1..Len(t) : t[i] = old

RECURSIVE Concat(_)
Concat(ss) == IF ss = <<>> THEN <<>> ELSE Head(ss) \o Concat(Tail(ss))

\* text.replace(old, new)
\* The characters of a token; the tokens that meet an empty key are the
\* placeholder {a} and tokens of one character
CharsOf(tok) == IF tok = "{a}" THEN <<"{", "a", "}">> ELSE <<tok>>
\* text.replace("", new): new before the first character and after each one
Spread(t, new) ==
    new \o Concat([i \in 1..Len(t) |->
                      Concat([j \in 1..Len(CharsOf(t[i])) |-> <<CharsOf(t[i])[j]>> \o new])])
StrReplace(t, old, new) ==
    IF old = "" THEN Spread(t, new)
    ELSE Concat([i \in 1..Len(t) |-> IF t[i] = old THEN new ELSE <<t[i]>>])

\* run.text = ... / add_run(text) raise ValueError on a control character.
XmlCompatible(t) == ~Contains(t, CtrlChar)

(***************************************************************************)
(* Placeholders and the SIM families.                                      *)
(***************************************************************************)
Digit == <<"1", "2", "3", "4", "5", "6", "7", "8">>
SimNames == <<"operateur", "iccid", "imsi", "msisdn", "datesync">>
\* f"{{operateur{i}}}" ...
SimKey(n, i) == "{" \o n \o Digit[i] \o "}"
SimRange == 1..8
SimKeyTable == [i \in SimRange |-> [k \in 1..Len(SimNames) |-> SimKey(SimNames[k], i)]]
\* sim_keys of remove_empty_sim_tables, for family i
SimKeys(i) == SimKeyTable[i]

\* The tokens that PLACEHOLDER_PATTERN matches.
PlaceholderTokens ==
    {"{a}", "{b}"} \cup {SimKeyTable[i][k] : k \in 1..Len(SimNames), i \in SimRange}

\* PLACEHOLDER_PATTERN.findall(text)
FindAll(t) == SelectSeq(t, LAMBDA tok : tok \in PlaceholderTokens)

(***************************************************************************)
(* Mappings: a dict is a sequence of items in insertion order.             *)
(***************************************************************************)
HasKey(m, k) == \E i \in 1..Len(m) : m[i].k = k
\* mapping.get(key, default)
Get(m, k, default) ==
    IF HasKey(m, k) THEN m[CHOOSE i \in 1..Len(m) : m[i].k = k].v ELSE default
\* An assignment in place of setdefault: the supplied value is lost
SetDefault_Overwrites(m, k, v) ==
    IF HasKey(m, k) THEN [i \in 1..Len(m) |-> IF m[i].k = k THEN [k |-> k, v |-> v] ELSE m[i]]
    ELSE Append(m, [k |-> k, v |-> v])
\* mapping.setdefault(key, value)
SetDefault(m, k, v) == IF HasKey(m, k) THEN m ELSE Append(m, [k |-> k, v |-> v])

RECURSIVE FillLoop(_, _, _)
FillLoop(out, m, i) ==
    IF i > Len(m) THEN out
    ELSE FillLoop(StrReplace(out, m[i].k, m[i].v), m, i + 1)
fill_with_mapping(text, m) == FillLoop(text, m, 1)

(***************************************************************************)
(* The document tree.                                                      *)
(***************************************************************************)
HeadingStyles == {"Heading 1", "Titre 1"}
\* is_heading
is_heading(p) == p.style \in HeadingStyles

Par(id, style, text) ==
    [kind |-> "p", id |-> id, style |-> style, text |-> text, rows |-> <<>>]
Tbl(id, rows) ==
    [kind |-> "tbl", id |-> id, style |-> "", text |-> <<>>, rows |-> rows]

IsPar(b) == b.kind = "p"
IsTbl(b) == b.kind = "tbl"

\* doc.paragraphs and doc.tables: the body's own paragraphs and tables
Paragraphs(d) == SelectSeq(d.body, IsPar)
Tables(d) == SelectSeq(d.body, IsTbl)

\* row.cells, then cell.paragraphs, over the rows of a table
CellParagraphs(t) == Concat([r \in 1..Len(t.rows) |-> Concat(t.rows[r])])

\* iter_all_paragraphs: the body paragraphs first, then the cells of the tables
iter_all_paragraphs(d) ==
    Paragraphs(d) \o Concat([k \in 1..Len(Tables(d)) |-> CellParagraphs(Tables(d)[k])])

Ids(s) == {s[i].id : i \in 1..Len(s)}
Texts(s) == [i \in 1..Len(s) |-> s[i].text]

RECURSIVE Dedup(_, _)
Dedup(s, seen) ==
    IF s = <<>> THEN <<>>
    ELSE IF Head(s) \in seen THEN Dedup(Tail(s), seen)
    ELSE <<Head(s)>> \o Dedup(Tail(s), seen \cup {Head(s)})

\* The paragraphs of the header tables, table by table, row by row, cell by cell
HeaderCellParagraphs(d) ==
    Concat([k \in 1..Len(d.htables) |-> CellParagraphs(d.htables[k])])

\* find_placeholders_in_order: the header paragraphs, the header tables, the body
find_placeholders_in_order(d) ==
    LET scan(ps) == Concat([i \in 1..Len(ps) |-> FindAll(ps[i].text)])
    IN  Dedup(scan(d.header) \o scan(HeaderCellParagraphs(d))
              \o scan(iter_all_paragraphs(d)), {})

\* collect_headings_in_order
collect_headings_in_order(d) == SelectSeq(iter_all_paragraphs(d), is_heading)

\* default_heading_decisions
\* defaults that keep every title and add nothing
default_heading_decisions_KeepTitle(headings, m) ==
    [i \in 1..Len(headings) |-> KeepTitleOnly]
default_heading_decisions(headings, m) ==
    [i \in 1..Len(headings) |-> fill_with_mapping(DEFAULT_ANALYSIS_TEMPLATE, m)]

(***************************************************************************)
(* The passes of process_document.  Each takes the document and returns it *)
(* as the pass leaves it; `raised` is set when the pass raises.            *)
(***************************************************************************)
RECURSIVE ReplaceLoop(_, _, _, _, _)
\* the `for old, new in mapping.items()` loop of replace_in_runs
ReplaceLoop(m, i, new_text, allow_delete, in_cell) ==
    IF i > Len(m) THEN [remove_entire |-> FALSE, new_text |-> new_text]
    ELSE IF ~Contains(new_text, m[i].k)
         THEN ReplaceLoop(m, i + 1, new_text, allow_delete, in_cell)
    ELSE IF m[i].v = <<>> /\ allow_delete /\ ~in_cell
         THEN [remove_entire |-> TRUE, new_text |-> new_text]
    ELSE ReplaceLoop(m, i + 1, StrReplace(new_text, m[i].k, m[i].v),
                     allow_delete, in_cell)

\* replace_in_runs that never writes the new text
ReplaceOutcome_KeepsText(text, r) ==
    [removed |-> r.remove_entire, text |-> text, raised |-> FALSE]
\* replace_in_runs: [removed, text, raised]; in_cell is is_in_table_cell(paragraph)
ReplaceOutcome(text, r) ==
    IF r.remove_entire THEN [removed |-> TRUE, text |-> text, raised |-> FALSE]
    ELSE IF r.new_text = text THEN [removed |-> FALSE, text |-> text, raised |-> FALSE]
    ELSE [removed |-> FALSE, text |-> r.new_text, raised |-> ~XmlCompatible(r.new_text)]
\* replace_in_runs without the test of is_in_table_cell
replace_in_runs_AnyParagraph(text, m, allow_delete, in_cell) ==
    IF m = <<>> THEN [removed |-> FALSE, text |-> text, raised |-> FALSE]
    ELSE ReplaceOutcome(text, ReplaceLoop(m, 1, text, allow_delete, FALSE))
replace_in_runs(text, m, allow_delete, in_cell) ==
    IF m = <<>> THEN [removed |-> FALSE, text |-> text, raised |-> FALSE]
    ELSE ReplaceOutcome(text, ReplaceLoop(m, 1, text, allow_delete, in_cell))

\* One paragraph after replace_in_runs returned res
Replaced(p, res) ==
    [b |-> [p EXCEPT !.text = res.text], removed |-> res.removed, raised |-> res.raised]
\* The elements a loop of replace_in_runs leaves, from its steps
Kept(steps) == SelectSeq(steps, LAMBDA x : ~x.removed)
Left(kept) == [i \in 1..Len(kept) |-> kept[i].b]
AnyRaised(steps) == \E i \in 1..Len(steps) : steps[i].raised

\* replace_in_runs over the paragraphs `ps` that are not in a cell
ReplaceFlow(ps, m) ==
    [i \in 1..Len(ps) |-> Replaced(ps[i], replace_in_runs(ps[i].text, m, TRUE, FALSE))]

\* replace_in_runs over every cell paragraph of table t
ReplaceCells(t, m) ==
    [t EXCEPT !.rows =
        [r \in 1..Len(t.rows) |->
            [c \in 1..Len(t.rows[r]) |->
                [k \in 1..Len(t.rows[r][c]) |->
                    [t.rows[r][c][k] EXCEPT !.text =
                        replace_in_runs(t.rows[r][c][k].text, m, TRUE, TRUE).text]]]]]
CellsRaise(t, m) ==
    \E i \in 1..Len(CellParagraphs(t)) :
        replace_in_runs(CellParagraphs(t)[i].text, m, TRUE, TRUE).raised

\* process_document, "Remplacer dans les en-tetes"
HeaderResult(d, steps, m) ==
    [d EXCEPT !.header = Left(Kept(steps)),
              !.htables = [k \in 1..Len(d.htables) |-> ReplaceCells(d.htables[k], m)],
              !.raised = AnyRaised(steps)
                         \/ \E k \in 1..Len(d.htables) : CellsRaise(d.htables[k], m)]
ReplaceInHeaders(d, m) == HeaderResult(d, ReplaceFlow(d.header, m), m)

\* The family a table is identified with: the lowest index whose keys occur in
\* the first row that holds a SIM key; 0 when the table is not a SIM table.
RowText(row) == Concat(Texts(Concat(row)))
RowFamilies(row) == {i \in SimRange : \E k \in 1..Len(SimKeys(i)) :
                                          Contains(RowText(row), SimKeys(i)[k])}
Min(S) == CHOOSE x \in S : \A y \in S : x <= y
sim_index(t) ==
    LET hit == {r \in 1..Len(t.rows) : RowFamilies(t.rows[r]) # {}}
    IN  IF hit = {} THEN 0 ELSE Min(RowFamilies(t.rows[Min(hit)]))
\* has_at_least_one_value without the strip()
has_at_least_one_value_NoStrip(i, m) ==
    \E k \in 1..Len(SimKeys(i)) : Get(m, SimKeys(i)[k], <<>>) # <<>>
\* has_at_least_one_value: mapping.get(key, "").strip() is non-empty for a key
has_at_least_one_value(i, m) ==
    \E k \in 1..Len(SimKeys(i)) : ~IsBlankText(Get(m, SimKeys(i)[k], <<>>))

\* remove_empty_sim_tables
remove_empty_sim_tables(d, m) ==
    [d EXCEPT !.body =
        SelectSeq(d.body, LAMBDA b :
            ~(IsTbl(b) /\ sim_index(b) # 0 /\ ~has_at_least_one_value(sim_index(b), m)))]

\* process_document, "Remplacer dans le corps du document"
BodyStep(b, m) ==
    IF IsPar(b) THEN Replaced(b, replace_in_runs(b.text, m, TRUE, FALSE))
    ELSE [b |-> ReplaceCells(b, m), removed |-> FALSE, raised |-> CellsRaise(b, m)]
BodyResult(d, steps) ==
    [d EXCEPT !.body = Left(Kept(steps)), !.raised = AnyRaised(steps)]
ReplaceInBody(d, m) == BodyResult(d, [i \in 1..Len(d.body) |-> BodyStep(d.body[i], m)])

\* remove_empty_paragraphs: blank paragraphs go, except those of table cells
remove_empty_paragraphs(d) ==
    [d EXCEPT !.body = SelectSeq(d.body, LAMBDA b : ~(IsPar(b) /\ IsBlankText(b.text)))]
\* a pass that raised ends process_document: the passes after it do not run
BlankParagraphsUnlessRaised(d) == IF d.raised THEN d ELSE remove_empty_paragraphs(d)

\* insert_after(paragraph, text): a new paragraph of the default style right
\* after the paragraph `id`; add_run raises on a control character
\* insert_after that adds the paragraph and no run
NewParagraph_NoRun(d, text) == Par(d.next, "Normal", <<>>)
NewParagraph(d, text) == Par(d.next, "Normal", text)
Position(body, id) == CHOOSE i \in 1..Len(body) : body[i].id = id
\* an insertion that puts the new paragraph before the paragraph `id`
insert_after_Before(d, id, text) ==
    [d EXCEPT !.body = SubSeq(d.body, 1, Position(d.body, id) - 1)
                       \o <<NewParagraph(d, text)>>
                       \o SubSeq(d.body, Position(d.body, id), Len(d.body)),
              !.next = d.next + 1,
              !.raised = d.raised \/ ~XmlCompatible(text)]
insert_after(d, id, text) ==
    LET i == Position(d.body, id)
    IN  [d EXCEPT !.body = SubSeq(d.body, 1, i) \o <<NewParagraph(d, text)>>
                           \o SubSeq(d.body, i + 1, Len(d.body)),
                  !.next = d.next + 1,
                  !.raised = d.raised \/ ~XmlCompatible(text)]

\* remove_paragraph and remove_table: the element leaves its parent
\* a removal that takes the block after the paragraph with it
remove_paragraph_WithFollower(body, id) ==
    SelectSeq(body, LAMBDA b : /\ b.id # id
                               /\ (Position(body, b.id) = 1
                                      \/ body[Position(body, b.id) - 1].id # id))
remove_paragraph(body, id) == SelectSeq(body, LAMBDA b : b.id # id)
\* remove_table that leaves the table in its parent
remove_table_Keeps(body, id) == body
remove_table(body, id) == SelectSeq(body, LAMBDA b : b.id # id)

\* blocks.pop(i)
Pop(s, i) == SubSeq(s, 1, i - 1) \o SubSeq(s, i + 1, Len(s))

RECURSIVE DeleteFollowers(_, _, _)
\* the inner `while j < len(blocks)` loop of apply_heading_decisions: the
\* tables up to the next heading go, the paragraphs are stepped over
DeleteFollowers(blocks, j, body) ==
    IF j > Len(blocks) THEN [blocks |-> blocks, j |-> j, body |-> body]
    ELSE IF IsPar(blocks[j]) /\ is_heading(blocks[j])
         THEN [blocks |-> blocks, j |-> j, body |-> body]
    ELSE IF IsTbl(blocks[j])
         THEN DeleteFollowers(Pop(blocks, j), j, remove_table(body, blocks[j].id))
    ELSE DeleteFollowers(blocks, j + 1, body)

\* What apply_heading_decisions does at a heading, by its decision
DecisionKind(decision) ==
    IF decision = KeepTitleOnly THEN "keep"
    ELSE IF decision # <<>> THEN "insert"
    ELSE "delete"

RECURSIVE HeadingLoop(_, _, _, _, _)
\* the outer `while idx < len(blocks)` loop of apply_heading_decisions;
\* decisions[heading_idx] past the end of the list is an IndexError
HeadingLoop(blocks, idx, heading_idx, d, decisions) ==
    IF idx > Len(blocks) \/ d.raised THEN d
    ELSE IF ~(IsPar(blocks[idx]) /\ is_heading(blocks[idx]))
         THEN HeadingLoop(blocks, idx + 1, heading_idx, d, decisions)
    ELSE IF heading_idx > Len(decisions) THEN [d EXCEPT !.raised = TRUE]
    ELSE LET kind == DecisionKind(decisions[heading_idx])
         IN  IF kind = "keep"
                 THEN HeadingLoop(blocks, idx + 1, heading_idx + 1, d, decisions)
             ELSE IF kind = "insert"
                 THEN HeadingLoop(blocks, idx + 1, heading_idx + 1,
                                  insert_after(d, blocks[idx].id, decisions[heading_idx]),
                                  decisions)
             ELSE LET r == DeleteFollowers(Pop(blocks, idx), idx,
                                           remove_paragraph(d.body, blocks[idx].id))
                  IN  HeadingLoop(r.blocks, r.j, heading_idx + 1,
                                  [d EXCEPT !.body = r.body], decisions)

\* apply_heading_decisions: blocks = list(iter_block_items(doc))
apply_heading_decisions(d, decisions) == HeadingLoop(d.body, 1, 1, d, decisions)

(***************************************************************************)
(* Images.  A path is a string; Path(p).exists() and the success of        *)
(* add_picture are facts of the file system the request runs in.           *)
(***************************************************************************)
ImgOk == "ok.png"
ImgMissing == "missing.png"
ImgCorrupt == "corrupt.png"
\* Path(src).exists()
PathExists(src) == src \in {ImgOk, ImgCorrupt}
\* run.add_picture(src) raises
PictureRaises(src) == src = ImgCorrupt
\* The run that holds the picture of src
Picture(src) == "<picture " \o src \o ">"

\* text.strip()
RECURSIVE LStrip(_)
LStrip(t) == IF t # <<>> /\ Head(t) = Blank THEN LStrip(Tail(t)) ELSE t
RECURSIVE RStrip(_)
RStrip(t) == IF t # <<>> /\ t[Len(t)] = Blank THEN RStrip(SubSeq(t, 1, Len(t) - 1)) ELSE t
Strip(t) == RStrip(LStrip(t))

SetText(d, id, text) ==
    [d EXCEPT !.body = [i \in 1..Len(d.body) |->
                           IF d.body[i].id = id THEN [d.body[i] EXCEPT !.text = text]
                           ELSE d.body[i]]]

RECURSIVE InsertBlocks(_, _, _, _)
\* the `for block in blocks` loop of apply_heading_content_blocks
InsertBlocks(d, current_para, blocks, i) ==
    IF i > Len(blocks) \/ d.raised THEN d
    ELSE LET block == blocks[i] IN
         IF block.type = "text"
         THEN IF block.content # <<>>
              THEN InsertBlocks(insert_after(d, current_para, block.content),
                                d.next, blocks, i + 1)
              ELSE InsertBlocks(d, current_para, blocks, i + 1)
         ELSE IF block.type = "image" /\ block.src # ""
         THEN IF ~PathExists(block.src)
              THEN InsertBlocks(d, current_para, blocks, i + 1)
              ELSE IF PictureRaises(block.src)
              THEN InsertBlocks(insert_after(d, current_para, <<>>),
                                current_para, blocks, i + 1)
              ELSE InsertBlocks(SetText(insert_after(d, current_para, <<>>), d.next,
                                        <<Picture(block.src)>>),
                                d.next, blocks, i + 1)
         ELSE InsertBlocks(d, current_para, blocks, i + 1)

RECURSIVE ContentLoop(_, _, _, _)
\* the `for idx, para in enumerate(all_paras)` loop of apply_heading_content_blocks
ContentLoop(d, all_paras, idx, hc) ==
    IF idx > Len(all_paras) \/ d.raised THEN d
    ELSE LET para == all_paras[idx]
             blocks == Get(hc, Strip(para.text), <<>>)
             target_para == IF idx + 1 <= Len(all_paras) /\ ~is_heading(all_paras[idx + 1])
                            THEN all_paras[idx + 1].id ELSE para.id
         IN  IF is_heading(para) /\ blocks # <<>>
             THEN ContentLoop(InsertBlocks(d, target_para, blocks, 1), all_paras, idx + 1, hc)
             ELSE ContentLoop(d, all_paras, idx + 1, hc)

\* apply_heading_content_blocks: all_paras = list(doc.paragraphs)
apply_heading_content_blocks(d, hc) ==
    IF hc = <<>> THEN d ELSE ContentLoop(d, Paragraphs(d), 1, hc)

(***************************************************************************)
(* Markers.  The tokens that hold a marker, with what IMAGE_MARKER and the *)
(* test `"[[IMG" in full_text` make of each.                               *)
(***************************************************************************)
MarkerTable ==
    { [tok |-> "[[IMG:k]]",   key |-> "k", prefix |-> TRUE],
      [tok |-> "[[IMG:j]]",   key |-> "j", prefix |-> TRUE],
      [tok |-> "[[IMG: k ]]", key |-> "k", prefix |-> TRUE],
      [tok |-> "[[ IMG:k]]",  key |-> "k", prefix |-> FALSE] }
\* IMAGE_MARKER matches the token
IsMarker(tok) == \E e \in MarkerTable : e.tok = tok
\* the key IMAGE_MARKER captures in the token
MarkerKey(tok) == (CHOOSE e \in MarkerTable : e.tok = tok).key
\* "[[IMG" in text
HasImgPrefix(t) ==
    \E i \in 1..Len(t) : \E e \in MarkerTable : e.tok = t[i] /\ e.prefix

\* IMAGE_MARKER.findall(text): the keys of the markers of the text, in order
FindAllMarkers(t) ==
    [i \in 1..Len(SelectSeq(t, IsMarker)) |-> MarkerKey(SelectSeq(t, IsMarker)[i])]
\* find_image_markers_in_order: the header paragraphs, the header tables, the body
find_image_markers_in_order(d) ==
    LET scan(ps) == Concat([i \in 1..Len(ps) |-> FindAllMarkers(ps[i].text)])
    IN  Dedup(scan(d.header) \o scan(HeaderCellParagraphs(d))
              \o scan(iter_all_paragraphs(d)), {})

\* A pass that takes every marker's entry for an image it can embed
MarkerRun_AlwaysPicture(key, iam) == Picture(Get(iam, key, ""))
\* What apply_images_at_markers puts in place of one marker of key `key`
MarkerRun(key, iam) ==
    LET img_path == Get(iam, key, "")
    IN  IF img_path = "" THEN "[[IMG:" \o key \o "]]"
        ELSE IF ~PathExists(img_path) THEN "[[IMG:" \o key \o " - INTROUVABLE]]"
        ELSE IF PictureRaises(img_path) THEN "[[IMG:" \o key \o " - ERREUR]]"
        ELSE Picture(img_path)

\* The paragraph text as apply_images_at_markers rebuilds it
MarkerText(t, iam) ==
    IF ~HasImgPrefix(t) THEN t
    ELSE [i \in 1..Len(t) |-> IF IsMarker(t[i]) THEN MarkerRun(MarkerKey(t[i]), iam)
                              ELSE t[i]]

MarkerCells(tb, iam) ==
    [tb EXCEPT !.rows =
        [r \in 1..Len(tb.rows) |->
            [c \in 1..Len(tb.rows[r]) |->
                [k \in 1..Len(tb.rows[r][c]) |->
                    [tb.rows[r][c][k] EXCEPT !.text =
                        MarkerText(tb.rows[r][c][k].text, iam)]]]]]

\* A pass that raises when an entry names a file that is not there
apply_images_at_markers_Aborts(d, iam) ==
    [d EXCEPT !.raised = \E i \in 1..Len(iam) : iam[i].v # "" /\ ~PathExists(iam[i].v)]
\* apply_images_at_markers, over iter_all_paragraphs(doc)
apply_images_at_markers(d, iam) ==
    IF iam = <<>> THEN d
    ELSE [d EXCEPT !.body =
             [i \in 1..Len(d.body) |->
                 IF IsPar(d.body[i])
                 THEN [d.body[i] EXCEPT !.text = MarkerText(d.body[i].text, iam)]
                 ELSE MarkerCells(d.body[i], iam)]]

(***************************************************************************)
(* process_document, pass by pass.                                         *)
(***************************************************************************)
\* lines 530-551: the headers, the SIM tables, the body, the blank paragraphs
SubstituteBody(d1, m) ==
    IF d1.raised THEN d1
    ELSE BlankParagraphsUnlessRaised(ReplaceInBody(remove_empty_sim_tables(d1, m), m))
Substitute(d, m) == SubstituteBody(ReplaceInHeaders(d, m), m)

\* lines 553-559: the decisions process_document applies; an override is a
\* record [given, list], given = FALSE standing for None
NoDecisions == [given |-> FALSE, list |-> <<>>]
Given(list) == [given |-> TRUE, list |-> list]
DecisionsFor(d, m, decisions_override) ==
    IF decisions_override.given THEN decisions_override.list
    ELSE default_heading_decisions(collect_headings_in_order(d), m)

\* lines 562-571: the blank paragraphs, the content blocks, the markers
MarkersUnlessRaised(d, iam) == IF d.raised THEN d ELSE apply_images_at_markers(d, iam)
Finish(d, hc, iam) ==
    MarkersUnlessRaised(apply_heading_content_blocks(remove_empty_paragraphs(d), hc), iam)

\* process_document(interactive=False): the document doc.save writes, or a
\* document with `raised` set when a pass raised before the save
FinishUnlessRaised(d, hc, iam) == IF d.raised THEN d ELSE Finish(d, hc, iam)
DecideUnlessRaised(d, m, decisions_override, hc, iam) ==
    IF d.raised THEN d
    ELSE FinishUnlessRaised(
             apply_heading_decisions(d, DecisionsFor(d, m, decisions_override)), hc, iam)
process_document(input, mapping_override, decisions_override, hc, iam) ==
    DecideUnlessRaised(Substitute(input, mapping_override), mapping_override,
                       decisions_override, hc, iam)

(***************************************************************************)
(* generate, before the lock: the mapping and the decisions of the request *)
(***************************************************************************)
RECURSIVE SetDefaults(_, _, _)
\* for missing in placeholders_in_doc: mapping.setdefault(missing, "")
SetDefaults(m, phs, i) ==
    IF i > Len(phs) THEN m ELSE SetDefaults(SetDefault(m, phs[i], <<>>), phs, i + 1)
RequestMapping(payload, d) == SetDefaults(payload.mapping, find_placeholders_in_order(d), 1)

\* The resolution that leaves the sentinel in the list
ResolveChoice_KeepsSentinel(choice, default) == choice
\* What one position of the resolved list holds
ResolveChoice(choice, default) == IF choice = DefaultSentinel THEN default ELSE choice

\* generate passing the payload's list on as it came
ResolveDecisions_ListAsIs(decisions, headings, m) ==
    IF ~decisions.given THEN default_heading_decisions(headings, m) ELSE decisions.list
\* lines 212-226: decisions is None -> the defaults; else one entry per heading
ResolveDecisions(decisions, headings, m) ==
    LET defaults == default_heading_decisions(headings, m)
    IN  IF ~decisions.given THEN defaults
        ELSE [idx \in 1..Len(headings) |->
                 ResolveChoice(IF idx <= Len(decisions.list) THEN decisions.list[idx]
                               ELSE DefaultSentinel,
                               defaults[idx])]

(***************************************************************************)
(* The inputs: templates, payloads.                                        *)
(***************************************************************************)
OneCell(id, text) == <<Par(id, "Normal", text)>>
\* The block of kind `kind` at position k of a template body
Block(kind, k) ==
    CASE kind = "heading"   -> Par(10 * k, "Heading 1", <<"T">>)
      [] kind = "paragraph" -> Par(10 * k, "Normal", <<"{a}">>)
      [] kind = "table"     -> Tbl(10 * k, << <<OneCell(10 * k + 1, <<"{a}">>)>> >>)
      [] kind = "sim"       -> Tbl(10 * k, << <<OneCell(10 * k + 1, <<"{iccid1}">>),
                                                OneCell(10 * k + 2, <<"{iccid2}">>)>> >>)
      [] kind = "heading_a"    -> Par(10 * k, "Heading 1", <<"{a}">>)
      [] kind = "heading_cell" -> Tbl(10 * k, << << <<Par(10 * k + 1, "Heading 1", <<"T">>)>> >> >>)
      [] kind = "paragraph_b"  -> Par(10 * k, "Normal", <<"{b}">>)
      [] kind = "text"         -> Par(10 * k, "Normal", <<"t">>)
      [] kind = "marker"       -> Par(10 * k, "Normal", <<"see", "[[IMG:k]]", "and", "[[IMG:j]]">>)
      [] kind = "marker_cell"  -> Tbl(10 * k, << <<OneCell(10 * k + 1, <<"[[IMG:k]]", "end">>)>> >>)
      [] kind = "marker_inner"  -> Par(10 * k, "Normal", <<"[[IMG: k ]]", "end">>)
      [] kind = "marker_spaced" -> Par(10 * k, "Normal", <<"see", "[[ IMG:k]]">>)
      [] kind = "marker_both"   -> Par(10 * k, "Normal", <<"[[ IMG:k]]", "[[IMG:j]]">>)
      [] kind = "marker_spaced_cell" ->
             Tbl(10 * k, << <<OneCell(10 * k + 1, <<"[[ IMG:k]]", "end">>)>> >>)
BlockKinds == {"heading", "paragraph", "table", "sim"}
\* The identities of the paragraphs a run adds start above those of the template
FirstFreshId == 10 * (MaxBlocks + 2)
MakeDoc(header, kinds) ==
    [header |-> header, htables |-> <<>>,
     body |-> [k \in 1..Len(kinds) |-> Block(kinds[k], k)],
     next |-> FirstFreshId, raised |-> FALSE]
Headers == {<<>>}
Templates ==
    {MakeDoc(h, kinds) : h \in Headers,
                         kinds \in UNION {[1..n -> BlockKinds] : n \in 0..MaxBlocks}}

\* A key of a payload mapping is absent or has one of the values listed
Absent == [has |-> FALSE, v |-> <<>>]
Val(v) == [has |-> TRUE, v |-> v]
Item(k, o) == IF o.has THEN <<[k |-> k, v |-> o.v]>> ELSE <<>>
PayloadMappings ==
    {Item("{a}", a) \o Item("{iccid1}", i1) \o Item("{imsi1}", m1) \o Item("{iccid2}", i2) :
        a \in {Absent, Val(<<>>), Val(<<"x">>), Val(<<Blank>>)},
        i1 \in {Absent, Val(<<"x">>), Val(<<Blank>>)},
        m1 \in {Absent, Val(<<"x">>)},
        i2 \in {Absent, Val(<<"x">>)}}

DecisionChoices ==
    {DefaultSentinel, <<>>, <<"w">>, KeepTitleOnly, <<Blank>>, <<"[[IMG:k]]">>}
PayloadDecisions ==
    {NoDecisions} \cup
    {Given(l) : l \in UNION {[1..n -> DecisionChoices] : n \in 0..MaxDecisions}}

\* heading_content and images_at_markers of a payload
HeadingContents == {<<>>, <<[k |-> <<"T">>, v |-> <<[type |-> "text", content |-> <<"c">>, src |-> ""]>>]>>}
MarkerImages == {<<>>, <<[k |-> "k", v |-> ImgOk]>>}

\* The size of a request: blocks, mapping items, decisions, content keys, images
InputSize(t, p) ==
    Len(t.body) + Len(p.mapping) + Len(p.decisions.list)
    + Len(p.heading_content) + Len(p.images_at_markers)

(***************************************************************************)
(* The server's inputs.                                                    *)
(***************************************************************************)
\* Concurrent requests and /events subscribers.
NumRequests == 2
NumSubscribers == 2
Reqs == 1..NumRequests
Subs == 1..NumSubscribers

\* The template file of the server runs: a heading, a paragraph, a table
ServerTemplate == MakeDoc(<<>>, <<"heading", "paragraph", "table">>)
ServerPayloads ==
    [overwrite : BOOLEAN,
     mapping : {<<[k |-> "{a}", v |-> <<"x">>]>>, <<[k |-> "{a}", v |-> <<"y">>]>>,
                <<[k |-> "{a}", v |-> <<CtrlChar>>]>>},
     decisions : {NoDecisions},
     heading_content : {<<>>}, images_at_markers : {<<>>}]

\* The output file: absent, or holding a saved document
NoFile == [exists |-> FALSE, content |-> MakeDoc(<<>>, <<>>)]
File(d) == [exists |-> TRUE, content |-> d]
\* An output file left by an earlier run of the server
EarlierOutput == File(MakeDoc(<<>>, <<"table">>))

\* What a request that has not started holds
NoPayload ==
    [overwrite |-> FALSE, mapping |-> <<>>, decisions |-> NoDecisions,
     heading_content |-> <<>>, images_at_markers |-> <<>>]
NoRequest ==
    [kind |-> "none", pc |-> "idle", payload |-> NoPayload, mapping |-> <<>>,
     decisions |-> <<>>, doc |-> MakeDoc(<<>>, <<>>), target |-> "", todo |-> <<>>]

(***************************************************************************)
(* State.                                                                  *)
(***************************************************************************)
VARIABLES
    template,    \* the template document of the request followed (src_path)
    payload,     \* its GeneratePayload
    mapping,     \* generate's mapping, after the setdefault loop
    decisions,   \* generate's resolved decisions
    headings,    \* process_document's headings (line 553)
    doc,         \* process_document's doc
    pc,          \* where the request followed is
    req,         \* the server's requests: kind, position and locals of each
    lock,        \* doc_lock: 0 when free, else the request that holds it
    waiters,     \* the requests waiting in doc_lock.acquire(), in order
    output,      \* the output file of the template
    listeners,   \* the module's list of subscriber queues
    queues,      \* the asyncio.Queue of each subscriber
    sub,         \* each subscriber: "new", "listening" or "gone"
    registered,  \* history: `listeners` when the broadcast of a request began
    sent,        \* history: the subscribers a request's broadcast has put to
    fs,          \* the files on disk: the template sources and the outputs there
    api,         \* one request to the API and the answer it gets
    call,        \* one call of process_document by keywords, and its outcome
    idx,         \* collect_heading_decisions: the index of the heading prompted
    backs        \* the back answers the user has given so far

docvars == <<template, payload, mapping, decisions, headings, doc, pc>>
srvvars == <<req, lock, waiters, output, listeners, queues, sub, registered, sent>>
auxvars == <<fs, api, call, idx, backs>>
vars == <<template, payload, mapping, decisions, headings, doc, pc,
          req, lock, waiters, output, listeners, queues, sub, registered, sent,
          fs, api, call, idx, backs>>

NoDoc == MakeDoc(<<>>, <<>>)

\* No request to the API, no call by keywords, no prompt
NoFiles == [sources |-> {}, outputs |-> {}]
NoApi == [route |-> "", selected |-> "", status |-> 0, key |-> ""]
NoCall == [keywords |-> {}, outcome |-> ""]
AuxIdle ==
    /\ fs = NoFiles
    /\ api = NoApi
    /\ call = NoCall
    /\ idx = 0
    /\ backs = 0

\* The server at rest
ServerIdle ==
    /\ req = [r \in Reqs |-> NoRequest]
    /\ lock = 0
    /\ waiters = <<>>
    /\ listeners = <<>>
    /\ queues = [s \in Subs |-> <<>>]
    /\ sub = [s \in Subs |-> "new"]
    /\ registered = [r \in Reqs |-> <<>>]
    /\ sent = [r \in Reqs |-> <<>>]

InitDoc ==
    /\ template \in Templates
    /\ \E m \in PayloadMappings :
         /\ Len(template.body) + Len(m) <= MaxInputSize
         /\ \E dc \in PayloadDecisions :
              /\ Len(template.body) + Len(m) + Len(dc.list) <= MaxInputSize
              /\ \E hc \in HeadingContents, iam \in MarkerImages :
                   /\ payload = [mapping |-> m, decisions |-> dc,
                                 heading_content |-> hc, images_at_markers |-> iam]
                   /\ InputSize(template, payload) <= MaxInputSize
    /\ mapping = <<>>
    /\ decisions = <<>>
    /\ headings = <<>>
    /\ doc = NoDoc
    /\ pc = "received"
    /\ ServerIdle
    /\ output = NoFile
    /\ AuxIdle

\* generate, lines 203-226
Generate_Prepare ==
    /\ pc = "received"
    /\ mapping' = RequestMapping(payload, template)
    /\ decisions' = ResolveDecisions(payload.decisions,
                                     collect_headings_in_order(template), mapping')
    /\ pc' = "prepared"
    /\ UNCHANGED <<template, payload, headings, doc>>
    /\ UNCHANGED srvvars
    /\ UNCHANGED auxvars

\* process_document, lines 517-551
PD_Substitute ==
    /\ pc = "prepared"
    /\ doc' = Substitute(template, mapping)
    /\ pc' = IF doc'.raised THEN "failed" ELSE "substituted"
    /\ UNCHANGED <<template, payload, mapping, decisions, headings>>
    /\ UNCHANGED srvvars
    /\ UNCHANGED auxvars

\* process_document, lines 553-561
PD_ApplyHeadingDecisions ==
    /\ pc = "substituted"
    /\ headings' = collect_headings_in_order(doc)
    /\ doc' = apply_heading_decisions(doc, DecisionsFor(doc, mapping, Given(decisions)))
    /\ pc' = IF doc'.raised THEN "failed" ELSE "decided"
    /\ UNCHANGED <<template, payload, mapping, decisions>>
    /\ UNCHANGED srvvars
    /\ UNCHANGED auxvars

\* process_document, lines 562-574
PD_FinishAndSave ==
    /\ pc = "decided"
    /\ doc' = Finish(doc, payload.heading_content, payload.images_at_markers)
    /\ pc' = IF doc'.raised THEN "failed" ELSE "saved"
    /\ UNCHANGED <<template, payload, mapping, decisions, headings>>
    /\ UNCHANGED srvvars
    /\ UNCHANGED auxvars

\* One /generate request on a template of `kinds`, with a payload of the sets
\* given
InitRequest(headers, kinds, mappings, decisionss, contents, images) ==
    /\ template \in {MakeDoc(h, ks) : h \in headers,
                                      ks \in UNION {[1..n -> kinds] : n \in 0..MaxBlocks}}
    /\ payload \in [mapping : mappings, decisions : decisionss,
                    heading_content : contents, images_at_markers : images]
    /\ mapping = <<>>
    /\ decisions = <<>>
    /\ headings = <<>>
    /\ doc = NoDoc
    /\ pc = "received"
    /\ ServerIdle
    /\ output = NoFile
    /\ AuxIdle

NextDoc ==
    \/ Generate_Prepare
    \/ PD_Substitute
    \/ PD_ApplyHeadingDecisions
    \/ PD_FinishAndSave

SpecDoc == InitDoc /\ [][NextDoc]_vars

\* Templates whose headings hold a placeholder or sit in a table cell
AlignKinds == {"heading", "heading_a", "heading_cell", "table"}
AlignMappings == {<<>>, <<[k |-> "{a}", v |-> <<"x">>]>>}
InitAlign == InitRequest({<<>>}, AlignKinds, AlignMappings, PayloadDecisions, {<<>>}, {<<>>})
SpecAlign == InitAlign /\ [][NextDoc]_vars

(***************************************************************************)
(* process_document called directly, not interactive, with a mapping       *)
(* override and no decisions override.                                     *)
(***************************************************************************)
DirectKinds == {"heading", "paragraph", "text", "table"}
DirectMappings ==
    { <<>>,
      <<[k |-> "{a}", v |-> <<"x">>]>>,
      <<[k |-> "{a}", v |-> <<>>]>>,
      <<[k |-> "", v |-> <<"x">>]>>,
      <<[k |-> "", v |-> <<>>]>>,
      <<[k |-> "{a}", v |-> <<"x">>], [k |-> "", v |-> <<"x">>]>>,
      <<[k |-> "", v |-> <<"x">>], [k |-> "{a}", v |-> <<"x">>]>>,
      <<[k |-> "{a}", v |-> <<>>], [k |-> "", v |-> <<"x">>]>> }
InitDirect == InitRequest({<<>>}, DirectKinds, DirectMappings, {NoDecisions}, {<<>>}, {<<>>})

\* lines 517-528: mapping = mapping_override
Direct_Bind ==
    /\ pc = "received"
    /\ mapping' = payload.mapping
    /\ pc' = "prepared"
    /\ UNCHANGED <<template, payload, decisions, headings, doc>>
    /\ UNCHANGED srvvars
    /\ UNCHANGED auxvars

\* lines 553-561: decisions_override is None and interactive is False
Direct_Decide ==
    /\ pc = "substituted"
    /\ headings' = collect_headings_in_order(doc)
    /\ decisions' = DecisionsFor(doc, mapping, payload.decisions)
    /\ doc' = apply_heading_decisions(doc, decisions')
    /\ pc' = IF doc'.raised THEN "failed" ELSE "decided"
    /\ UNCHANGED <<template, payload, mapping>>
    /\ UNCHANGED srvvars
    /\ UNCHANGED auxvars

NextDirect ==
    \/ Direct_Bind
    \/ PD_Substitute
    \/ Direct_Decide
    \/ PD_FinishAndSave

SpecDirect == InitDirect /\ [][NextDirect]_vars

\* Mappings whose values may hold a placeholder, in either order of the keys
ChainHeaders == {<<>>, <<Par(1, "Normal", <<"x", "{a}">>)>>}
ChainKinds == {"paragraph", "paragraph_b", "table"}
ChainValues == {<<>>, <<"x">>, <<"{a}">>, <<"{b}">>}
ChainMappings ==
    {<<>>}
    \cup {<<[k |-> k1, v |-> v1]>> : k1 \in {"{a}", "{b}"}, v1 \in ChainValues}
    \cup {<<[k |-> ks[1], v |-> v1], [k |-> ks[2], v |-> v2]>> :
             ks \in {<<"{a}", "{b}">>, <<"{b}", "{a}">>},
             v1 \in ChainValues, v2 \in ChainValues}
InitChain == InitRequest(ChainHeaders, ChainKinds, ChainMappings, {NoDecisions}, {<<>>}, {<<>>})
SpecChain == InitChain /\ [][NextDoc]_vars

\* Templates with inline markers; heading content and marker images whose
\* file is there, is missing, or cannot be embedded
TextBlock(content) == [type |-> "text", content |-> content, src |-> ""]
ImageBlock(src) == [type |-> "image", content |-> <<>>, src |-> src]
ImageKinds == {"heading", "marker", "marker_cell"}
ImageDecisions == {Given([i \in 1..MaxBlocks |-> c]) : c \in {KeepTitleOnly, <<"w">>}}
ImageBlocks == {TextBlock(<<"c">>), ImageBlock(ImgOk), ImageBlock(ImgMissing), ImageBlock(ImgCorrupt)}
MaxImageBlocks == 2
ImageContents ==
    {<<>>} \cup {<<[k |-> <<"T">>, v |-> l]>> :
                    l \in UNION {[1..n -> ImageBlocks] : n \in 1..MaxImageBlocks}}
ImageMarkers ==
    { <<>>,
      <<[k |-> "k", v |-> ImgOk]>>,
      <<[k |-> "k", v |-> ImgMissing]>>,
      <<[k |-> "k", v |-> ImgCorrupt]>>,
      <<[k |-> "k", v |-> ""]>>,
      <<[k |-> "j", v |-> ImgOk]>>,
      <<[k |-> "k", v |-> ImgMissing], [k |-> "j", v |-> ImgOk]>> }
InitImages == InitRequest({<<>>}, ImageKinds, {<<>>}, ImageDecisions, ImageContents, ImageMarkers)
SpecImages == InitImages /\ [][NextDoc]_vars

\* Templates of headings, paragraphs and tables, with every list of content
\* blocks up to MaxContentBlocks for the headings
ContentKinds == {"heading", "text", "table"}
ContentBlocks ==
    {TextBlock(<<"c">>), TextBlock(<<"d">>),
     ImageBlock(ImgOk), ImageBlock(ImgMissing), ImageBlock(ImgCorrupt)}
MaxContentBlocks == 3
ContentLists ==
    {<<>>} \cup {<<[k |-> <<"T">>, v |-> l]>> :
                    l \in UNION {[1..n -> ContentBlocks] : n \in 1..MaxContentBlocks}}
InitContent == InitRequest({<<>>}, ContentKinds, {<<>>}, ImageDecisions, ContentLists, {<<>>})
SpecContent == InitContent /\ [][NextDoc]_vars

\* Templates of headings, paragraphs and tables with every list of decisions
\* for them: deleted, kept and phrased headings side by side
SectionDecisions ==
    {NoDecisions} \cup
    {Given(l) : l \in UNION {[1..n -> {<<>>, KeepTitleOnly, <<"w">>}] : n \in 0..MaxBlocks}}
InitSection == InitRequest({<<>>}, ContentKinds, {<<>>}, SectionDecisions, {<<>>}, {<<>>})
SpecSection == InitSection /\ [][NextDoc]_vars

\* Templates whose markers carry the optional whitespace of IMAGE_MARKER, in
\* the header, in body paragraphs and in table cells
MarkerHeaders == {<<>>, <<Par(1, "Normal", <<"[[IMG:j]]">>)>>}
MarkerKinds ==
    {"marker", "marker_cell", "marker_inner", "marker_spaced", "marker_both",
     "marker_spaced_cell"}
SpacedMarkerImages ==
    { <<[k |-> "k", v |-> ImgOk]>>,
      <<[k |-> "j", v |-> ImgOk]>>,
      <<[k |-> "k", v |-> ImgOk], [k |-> "j", v |-> ImgOk]>>,
      <<[k |-> "k", v |-> ImgMissing], [k |-> "j", v |-> ImgOk]>> }
InitMarkers ==
    InitRequest(MarkerHeaders, MarkerKinds, {<<>>}, {NoDecisions}, {<<>>}, SpacedMarkerImages)
SpecMarkers == InitMarkers /\ [][NextDoc]_vars

(***************************************************************************)
(* The routes that resolve a template.  fs holds the names of the          *)
(* templates whose source file and whose output file exist; api is the     *)
(* last request answered.  A `selected` of "" is a request without the     *)
(* template parameter, or with an empty one: `if selected` is false for    *)
(* both.                                                                   *)
(***************************************************************************)
\* TEMPLATES, in the order of the dict
TemplateNames == <<"test", "test2", "test3">>
\* The files the server looks for: one source and one output per template
TemplateFiles == {TemplateNames[i] : i \in 1..Len(TemplateNames)}
NotFound == 404
Selections == {"", "test", "test2", "test3", "nope"}

RECURSIVE FirstExisting(_, _)
\* for name, src in TEMPLATES.items(): if src.exists(): return ...
FirstExisting(sources, i) ==
    IF i > Len(TemplateNames) THEN [status |-> NotFound, key |-> ""]
    ELSE IF TemplateNames[i] \in sources THEN [status |-> 200, key |-> TemplateNames[i]]
    ELSE FirstExisting(sources, i + 1)

\* a resolution that takes the first template there is for an unknown name
get_template_paths_FallsBack(selected, sources) ==
    IF selected \in sources THEN [status |-> 200, key |-> selected]
    ELSE FirstExisting(sources, 1)
\* get_template_paths: the key resolved, or the 404 raised
get_template_paths(selected, sources) ==
    IF selected # ""
    THEN IF \A i \in 1..Len(TemplateNames) : TemplateNames[i] # selected
         THEN [status |-> NotFound, key |-> ""]
         ELSE IF selected \notin sources THEN [status |-> NotFound, key |-> ""]
         ELSE [status |-> 200, key |-> selected]
    ELSE FirstExisting(sources, 1)

\* The answer of a route to a request, once the template is resolved
Answer(route, selected, r) ==
    [route |-> route, selected |-> selected, status |-> r.status, key |-> r.key]

\* download: 404 when the output file is not there
download(selected, files) ==
    IF get_template_paths(selected, files.sources).status = NotFound
    THEN get_template_paths(selected, files.sources)
    ELSE IF get_template_paths(selected, files.sources).key \notin files.outputs
    THEN [status |-> NotFound, key |-> get_template_paths(selected, files.sources).key]
    ELSE get_template_paths(selected, files.sources)

\* preview and preview_html: target is the output if it exists, else the
\* source; 404 when target is not there
preview(selected, files) ==
    IF get_template_paths(selected, files.sources).status = NotFound
    THEN get_template_paths(selected, files.sources)
    ELSE IF /\ get_template_paths(selected, files.sources).key \notin files.outputs
            /\ get_template_paths(selected, files.sources).key \notin files.sources
    THEN [status |-> NotFound, key |-> get_template_paths(selected, files.sources).key]
    ELSE get_template_paths(selected, files.sources)

\* generate: the output is unlinked first when the payload says overwrite,
\* and written when process_document reaches the save
GenerateOutputs(outputs, key, overwrite, saved) ==
    IF saved THEN outputs \cup {key}
    ELSE IF overwrite THEN outputs \ {key}
    ELSE outputs

InitApi ==
    /\ template = NoDoc
    /\ payload = NoPayload
    /\ mapping = <<>>
    /\ decisions = <<>>
    /\ headings = <<>>
    /\ doc = NoDoc
    /\ pc = "api"
    /\ ServerIdle
    /\ output = NoFile
    /\ fs \in [sources : SUBSET TemplateFiles, outputs : SUBSET TemplateFiles]
    /\ api = NoApi
    /\ call = NoCall
    /\ idx = 0
    /\ backs = 0

Api_Placeholders ==
    /\ pc = "api"
    /\ \E selected \in Selections :
         api' = Answer("placeholders", selected, get_template_paths(selected, fs.sources))
    /\ UNCHANGED <<fs, call, idx, backs>>
    /\ UNCHANGED docvars
    /\ UNCHANGED srvvars

Api_Generate ==
    /\ pc = "api"
    /\ \E selected \in Selections, overwrite \in BOOLEAN, saved \in BOOLEAN :
         IF get_template_paths(selected, fs.sources).status = NotFound
         THEN /\ api' = Answer("generate", selected, get_template_paths(selected, fs.sources))
              /\ fs' = fs
         ELSE /\ api' = Answer("generate", selected,
                               [status |-> IF saved THEN 200 ELSE 500,
                                key |-> get_template_paths(selected, fs.sources).key])
              /\ fs' = [fs EXCEPT !.outputs =
                           GenerateOutputs(@, get_template_paths(selected, fs.sources).key,
                                           overwrite, saved)]
    /\ UNCHANGED <<call, idx, backs>>
    /\ UNCHANGED docvars
    /\ UNCHANGED srvvars

Api_Download ==
    /\ pc = "api"
    /\ \E selected \in Selections : api' = Answer("download", selected, download(selected, fs))
    /\ UNCHANGED <<fs, call, idx, backs>>
    /\ UNCHANGED docvars
    /\ UNCHANGED srvvars

Api_Preview ==
    /\ pc = "api"
    /\ \E selected \in Selections : api' = Answer("preview", selected, preview(selected, fs))
    /\ UNCHANGED <<fs, call, idx, backs>>
    /\ UNCHANGED docvars
    /\ UNCHANGED srvvars

Api_PreviewHtml ==
    /\ pc = "api"
    /\ \E selected \in Selections :
         api' = Answer("preview_html", selected, preview(selected, fs))
    /\ UNCHANGED <<fs, call, idx, backs>>
    /\ UNCHANGED docvars
    /\ UNCHANGED srvvars

NextApi ==
    \/ Api_Placeholders
    \/ Api_Generate
    \/ Api_Download
    \/ Api_Preview
    \/ Api_PreviewHtml

SpecApi == InitApi /\ [][NextApi]_vars

(***************************************************************************)
(* A call of process_document by keywords.  Python binds the keywords to   *)
(* the parameters of the signature before the body runs, and raises        *)
(* TypeError for a keyword that is no parameter or for a parameter without *)
(* default that got no argument.                                           *)
(***************************************************************************)
\* the signature of process_document
ProcessDocumentParameters ==
    {"input_path", "output_path", "mapping_override", "decisions_override", "interactive",
     "heading_content", "images_at_markers", "image_width_inches", "images_at_markers_sizes"}
RequiredParameters == {"input_path", "output_path"}
\* the keywords of the call in test_image_integration
TestKeywords ==
    {"input_path", "output_path", "mapping_override", "decisions_override", "interactive",
     "images_after_headings", "images_after_paragraphs", "images_at_markers",
     "image_width_inches", "images_after_headings_sizes", "images_at_markers_sizes",
     "image_texts"}
\* The calls considered: the two paths and the two overrides, with any of the
\* other keywords
FixedKeywords == {"input_path", "output_path", "mapping_override", "decisions_override"}
CallKeywords ==
    {FixedKeywords \cup ks :
        ks \in SUBSET ((ProcessDocumentParameters \cup TestKeywords) \ FixedKeywords)}

\* The binding of the arguments
Bind(keywords) ==
    IF keywords \subseteq ProcessDocumentParameters /\ RequiredParameters \subseteq keywords
    THEN "accepted" ELSE "TypeError"

InitTest ==
    /\ template = NoDoc
    /\ payload = NoPayload
    /\ mapping = <<>>
    /\ decisions = <<>>
    /\ headings = <<>>
    /\ doc = NoDoc
    /\ pc = "test"
    /\ ServerIdle
    /\ output = NoFile
    /\ fs = NoFiles
    /\ api = NoApi
    /\ call \in [keywords : CallKeywords, outcome : {""}]
    /\ idx = 0
    /\ backs = 0

\* the call: the arguments are bound, or TypeError is raised and the test's
\* `except Exception` reports the failure
Test_Call ==
    /\ pc = "test"
    /\ call.outcome = ""
    /\ call' = [call EXCEPT !.outcome = Bind(call.keywords)]
    /\ UNCHANGED <<fs, api, idx, backs>>
    /\ UNCHANGED docvars
    /\ UNCHANGED srvvars

\* the body of process_document: it ends with doc.save(output_path), or a
\* pass raises and nothing is written
Test_Run ==
    /\ pc = "test"
    /\ call.outcome = "accepted"
    /\ \E raised \in BOOLEAN :
         /\ call' = [call EXCEPT !.outcome = IF raised THEN "raised" ELSE "saved"]
         /\ fs' = [fs EXCEPT !.outputs = IF raised THEN @ ELSE @ \cup {"test_output"}]
    /\ UNCHANGED <<api, idx, backs>>
    /\ UNCHANGED docvars
    /\ UNCHANGED srvvars

NextTest ==
    \/ Test_Call
    \/ Test_Run

SpecTest == InitTest /\ [][NextTest]_vars

(***************************************************************************)
(* collect_heading_decisions: the interactive loop over the headings.  One *)
(* step is one turn of the `while`: a prompt, the user's answer, and what  *)
(* the loop does with it.  idx counts from 0, as in the code.              *)
(***************************************************************************)
BACK_TOKEN == <<"__BACK__">>
\* The answers that may be back answers before the user stops going back
MaxBacks == 3
\* What the user types at "Choix (1/2/3/b, Enter=2)" and at "Votre phrase"
RawChoices == {"b", "B", " b", "1", "2", "3", "", "x"}
Phrases == {<<>>, <<"w">>, <<Blank, "w">>, BACK_TOKEN}
\* choice.strip().lower()
StripLower(raw) ==
    CASE raw = "B" -> "b"
      [] raw = " b" -> "b"
      [] OTHER -> raw

\* prompt_phrase_for_heading: the result for the choice and the phrase typed
prompt_phrase_for_heading(raw, phrase, m) ==
    IF StripLower(raw) = "b" THEN BACK_TOKEN
    ELSE IF StripLower(raw) = "1" THEN Strip(phrase)
    ELSE IF StripLower(raw) = "3" THEN <<>>
    ELSE fill_with_mapping(DEFAULT_ANALYSIS_TEMPLATE, m)

\* a back step that leaves the last decision where it is
BackStep_KeepsDecision(ds, i) ==
    IF i > 0 THEN [decisions |-> ds, idx |-> i - 1] ELSE [decisions |-> ds, idx |-> i]
\* res == BACK_TOKEN: decisions.pop() and idx -= 1 when idx > 0
BackStep(ds, i) ==
    IF i > 0 THEN [decisions |-> SubSeq(ds, 1, Len(ds) - 1), idx |-> i - 1]
    ELSE [decisions |-> ds, idx |-> i]
\* any other res: decisions[idx] = res or decisions.append(res), idx += 1
DecideStep(ds, i, res) ==
    [decisions |-> IF i < Len(ds) THEN [ds EXCEPT ![i + 1] = res] ELSE Append(ds, res),
     idx |-> i + 1]

PromptHeadings ==
    {collect_headings_in_order(MakeDoc(<<>>, [k \in 1..n |-> "heading"])) : n \in 0..MaxBlocks}
InitPrompt ==
    /\ template = NoDoc
    /\ payload = NoPayload
    /\ mapping \in AlignMappings
    /\ decisions = <<>>
    /\ headings \in PromptHeadings
    /\ doc = NoDoc
    /\ pc = "prompting"
    /\ ServerIdle
    /\ output = NoFile
    /\ fs = NoFiles
    /\ api = NoApi
    /\ call = NoCall
    /\ idx = 0
    /\ backs = 0

\* a turn of the loop whose answer is the back token
Prompt_Back ==
    /\ pc = "prompting"
    /\ idx < Len(headings)
    /\ backs < MaxBacks
    /\ \E raw \in RawChoices, phrase \in Phrases :
         /\ prompt_phrase_for_heading(raw, phrase, mapping) = BACK_TOKEN
         /\ decisions' = BackStep(decisions, idx).decisions
         /\ idx' = BackStep(decisions, idx).idx
    /\ backs' = backs + 1
    /\ UNCHANGED <<template, payload, mapping, headings, doc, pc>>
    /\ UNCHANGED <<fs, api, call>>
    /\ UNCHANGED srvvars

\* a turn of the loop whose answer is a decision
Prompt_Decide ==
    /\ pc = "prompting"
    /\ idx < Len(headings)
    /\ \E raw \in RawChoices, phrase \in Phrases :
         /\ prompt_phrase_for_heading(raw, phrase, mapping) # BACK_TOKEN
         /\ decisions' = DecideStep(decisions, idx,
                                    prompt_phrase_for_heading(raw, phrase, mapping)).decisions
         /\ idx' = DecideStep(decisions, idx,
                              prompt_phrase_for_heading(raw, phrase, mapping)).idx
    /\ UNCHANGED <<template, payload, mapping, headings, doc, pc>>
    /\ UNCHANGED <<fs, api, call, backs>>
    /\ UNCHANGED srvvars

\* the loop condition is false: return decisions
Prompt_Return ==
    /\ pc = "prompting"
    /\ idx >= Len(headings)
    /\ pc' = "collected"
    /\ UNCHANGED <<template, payload, mapping, decisions, headings, doc>>
    /\ UNCHANGED auxvars
    /\ UNCHANGED srvvars

NextPrompt ==
    \/ Prompt_Back
    \/ Prompt_Decide
    \/ Prompt_Return

SpecPrompt == InitPrompt /\ [][NextPrompt]_vars
\* input() returns whenever the user answers, and the loop runs on from each
\* answer: a turn that can be taken is taken
SpecPromptFair == SpecPrompt /\ WF_vars(NextPrompt)

(***************************************************************************)
(* The server.  A request runs on the event loop from one await to the     *)
(* next; every await is a point where another request may run.  The        *)
(* conversion of /preview runs in a worker thread, beside the event loop.  *)
(* The steps of a request are cut at least as finely as the event loop     *)
(* cuts them (an await that finds the lock free or the queue unbounded     *)
(* does not suspend): every behaviour of the server is a behaviour here.   *)
(***************************************************************************)
Init ==
    /\ template = ServerTemplate
    /\ payload = NoPayload
    /\ mapping = <<>>
    /\ decisions = <<>>
    /\ headings = <<>>
    /\ doc = NoDoc
    /\ pc = "server"
    /\ ServerIdle
    /\ output = EarlierOutput
    /\ AuxIdle

Set(r, fields) == [req EXCEPT ![r] = fields]

\* A lock that is granted to the first waiter whether or not it is held
CanAcquire_IgnoresHolder(r) == waiters # <<>> /\ Head(waiters) = r
\* doc_lock.acquire() grants the lock when it is free and no earlier waiter is
\* still waiting
CanAcquire(r) == lock = 0 /\ waiters # <<>> /\ Head(waiters) = r

\* generate, lines 203-253: the paths, the unlink of overwrite, the mapping and
\* the decisions; the request then waits at `async with doc_lock`
Generate_Start(r, p) ==
    /\ req[r].kind = "none"
    /\ output' = IF p.overwrite /\ output.exists THEN NoFile ELSE output
    /\ LET m == RequestMapping(p, template)
       IN  req' = Set(r, [req[r] EXCEPT
                     !.kind = "generate", !.pc = "acquire", !.payload = p,
                     !.mapping = m,
                     !.decisions = ResolveDecisions(p.decisions,
                                       collect_headings_in_order(template), m)])
    /\ waiters' = Append(waiters, r)
    /\ UNCHANGED <<lock, listeners, queues, sub, registered, sent>>
    /\ UNCHANGED docvars
    /\ UNCHANGED auxvars

\* `async with doc_lock`, entered (generate line 254, preview line 289)
Acquire(r) ==
    /\ req[r].pc = "acquire"
    /\ CanAcquire(r)
    /\ lock' = r
    /\ waiters' = Tail(waiters)
    /\ req' = Set(r, [req[r] EXCEPT !.pc = "locked"])
    /\ UNCHANGED <<output, listeners, queues, sub, registered, sent>>
    /\ UNCHANGED docvars
    /\ UNCHANGED auxvars

\* The request once process_document has run up to the save, or has raised
Transformed(q, d) ==
    [q EXCEPT !.doc = d, !.pc = IF d.raised THEN "raised" ELSE "transformed"]

\* process_document up to the save, lines 517-571
Generate_Transform(r) ==
    /\ req[r].kind = "generate" /\ req[r].pc = "locked"
    /\ req' = Set(r, Transformed(req[r],
                      process_document(template, req[r].mapping, Given(req[r].decisions),
                                       req[r].payload.heading_content,
                                       req[r].payload.images_at_markers)))
    /\ UNCHANGED <<lock, waiters, output, listeners, queues, sub, registered, sent>>
    /\ UNCHANGED docvars
    /\ UNCHANGED auxvars

\* doc.save(output_path), line 573
Generate_Save(r) ==
    /\ req[r].kind = "generate" /\ req[r].pc = "transformed"
    /\ output' = File(req[r].doc)
    /\ req' = Set(r, [req[r] EXCEPT !.pc = "saved"])
    /\ UNCHANGED <<lock, waiters, listeners, queues, sub, registered, sent>>
    /\ UNCHANGED docvars
    /\ UNCHANGED auxvars

\* a guarded section that keeps the lock when process_document raised
Generate_Release_KeptOnRaise(r) ==
    /\ req[r].kind = "generate" /\ req[r].pc \in {"saved", "raised"}
    /\ lock' = IF req[r].pc = "raised" THEN lock ELSE 0
    /\ req' = Set(r, [req[r] EXCEPT !.pc = IF req[r].pc = "saved" THEN "broadcast"
                                           ELSE "failed"])
    /\ UNCHANGED <<waiters, output, listeners, queues, sub, registered, sent>>
    /\ UNCHANGED docvars
    /\ UNCHANGED auxvars
\* the end of `async with doc_lock` in generate: on return or on an exception,
\* which then ends the request
Generate_Release(r) ==
    /\ req[r].kind = "generate" /\ req[r].pc \in {"saved", "raised"}
    /\ lock' = 0
    /\ req' = Set(r, [req[r] EXCEPT !.pc = IF req[r].pc = "saved" THEN "broadcast"
                                           ELSE "failed"])
    /\ UNCHANGED <<waiters, output, listeners, queues, sub, registered, sent>>
    /\ UNCHANGED docvars
    /\ UNCHANGED auxvars

\* A copy that misses the first subscriber
ListCopy_SkipsFirst(l) == IF l = <<>> THEN l ELSE Tail(l)
\* list(listeners)
ListCopy(l) == l

\* broadcast, line 149: the subscribers of the moment
Broadcast_Start(r) ==
    /\ req[r].kind = "generate" /\ req[r].pc = "broadcast"
    /\ req' = Set(r, [req[r] EXCEPT !.pc = "putting", !.todo = ListCopy(listeners)])
    /\ registered' = [registered EXCEPT ![r] = listeners]
    /\ UNCHANGED <<lock, waiters, output, listeners, queues, sub, sent>>
    /\ UNCHANGED docvars
    /\ UNCHANGED auxvars

\* broadcast, line 150: await q.put(message)
Broadcast_Put(r) ==
    /\ req[r].kind = "generate" /\ req[r].pc = "putting" /\ req[r].todo # <<>>
    /\ LET s == Head(req[r].todo)
       IN  /\ queues' = [queues EXCEPT ![s] = Append(@, "updated")]
           /\ sent' = [sent EXCEPT ![r] = Append(@, s)]
    /\ req' = Set(r, [req[r] EXCEPT !.todo = Tail(@)])
    /\ UNCHANGED <<lock, waiters, output, listeners, sub, registered>>
    /\ UNCHANGED docvars
    /\ UNCHANGED auxvars

\* generate, line 267
Generate_Return(r) ==
    /\ req[r].kind = "generate" /\ req[r].pc = "putting" /\ req[r].todo = <<>>
    /\ req' = Set(r, [req[r] EXCEPT !.pc = "done"])
    /\ UNCHANGED <<lock, waiters, output, listeners, queues, sub, registered, sent>>
    /\ UNCHANGED docvars
    /\ UNCHANGED auxvars

\* preview, lines 285-288: the target is the output file when it exists
Preview_Start(r) ==
    /\ req[r].kind = "none"
    /\ req' = Set(r, [req[r] EXCEPT
                  !.kind = "preview", !.pc = "acquire",
                  !.target = IF output.exists THEN "output" ELSE "template"])
    /\ waiters' = Append(waiters, r)
    /\ UNCHANGED <<lock, output, listeners, queues, sub, registered, sent>>
    /\ UNCHANGED docvars
    /\ UNCHANGED auxvars

\* What the worker finds at `target`: the template is always there
TargetExists(r) == req[r].target = "template" \/ output.exists

\* convert_to_html in the worker, lines 89-93: a missing file is a 404, else
\* the file is opened and parsed
Preview_ConvertStart(r) ==
    /\ req[r].kind = "preview" /\ req[r].pc = "locked"
    /\ req' = Set(r, [req[r] EXCEPT !.pc = IF TargetExists(r) THEN "reading"
                                           ELSE "raised"])
    /\ UNCHANGED <<lock, waiters, output, listeners, queues, sub, registered, sent>>
    /\ UNCHANGED docvars
    /\ UNCHANGED auxvars

\* convert_to_html, lines 136-145: the file is opened again for mammoth
Preview_ConvertEnd(r) ==
    /\ req[r].kind = "preview" /\ req[r].pc = "reading"
    /\ req' = Set(r, [req[r] EXCEPT !.pc = IF TargetExists(r) THEN "converted"
                                           ELSE "raised"])
    /\ UNCHANGED <<lock, waiters, output, listeners, queues, sub, registered, sent>>
    /\ UNCHANGED docvars
    /\ UNCHANGED auxvars

\* the end of `async with doc_lock` in preview, and the response
Preview_Release(r) ==
    /\ req[r].kind = "preview" /\ req[r].pc \in {"converted", "raised"}
    /\ lock' = 0
    /\ req' = Set(r, [req[r] EXCEPT !.pc = IF req[r].pc = "converted" THEN "done"
                                           ELSE "failed"])
    /\ UNCHANGED <<waiters, output, listeners, queues, sub, registered, sent>>
    /\ UNCHANGED docvars
    /\ UNCHANGED auxvars

\* event_stream, lines 154-155: a client connects to /events
Subscribe(s) ==
    /\ sub[s] = "new"
    /\ sub' = [sub EXCEPT ![s] = "listening"]
    /\ listeners' = Append(listeners, s)
    /\ UNCHANGED <<req, lock, waiters, output, queues, registered, sent>>
    /\ UNCHANGED docvars
    /\ UNCHANGED auxvars

\* event_stream, lines 158-159: a message is taken from the queue and sent
Consume(s) ==
    /\ sub[s] = "listening" /\ queues[s] # <<>>
    /\ queues' = [queues EXCEPT ![s] = Tail(@)]
    /\ UNCHANGED <<req, lock, waiters, output, listeners, sub, registered, sent>>
    /\ UNCHANGED docvars
    /\ UNCHANGED auxvars

\* event_stream, lines 160-161: the client goes, listeners.remove(queue)
Unsubscribe(s) ==
    /\ sub[s] = "listening"
    /\ sub' = [sub EXCEPT ![s] = "gone"]
    /\ listeners' = SelectSeq(listeners, LAMBDA x : x # s)
    /\ UNCHANGED <<req, lock, waiters, output, queues, registered, sent>>
    /\ UNCHANGED docvars
    /\ UNCHANGED auxvars

Next ==
    \/ \E r \in Reqs, p \in ServerPayloads : Generate_Start(r, p)
    \/ \E r \in Reqs : Acquire(r)
    \/ \E r \in Reqs : Generate_Transform(r)
    \/ \E r \in Reqs : Generate_Save(r)
    \/ \E r \in Reqs : Generate_Release(r)
    \/ \E r \in Reqs : Broadcast_Start(r)
    \/ \E r \in Reqs : Broadcast_Put(r)
    \/ \E r \in Reqs : Generate_Return(r)
    \/ \E r \in Reqs : Preview_Start(r)
    \/ \E r \in Reqs : Preview_ConvertStart(r)
    \/ \E r \in Reqs : Preview_ConvertEnd(r)
    \/ \E r \in Reqs : Preview_Release(r)
    \/ \E s \in Subs : Subscribe(s)
    \/ \E s \in Subs : Consume(s)
    \/ \E s \in Subs : Unsubscribe(s)

Spec == Init /\ [][Next]_vars

\* The steps of request r at the door of the guarded section and inside it,
\* after the call of process_document; at most one of them is enabled at a
\* time
LockStep(r) ==
    \/ Acquire(r)
    \/ Generate_Save(r)
    \/ Generate_Release(r)
    \/ Preview_ConvertStart(r)
    \/ Preview_ConvertEnd(r)
    \/ Preview_Release(r)
\* Generate_Transform(r) is enabled
Transforming(r) == req[r].kind = "generate" /\ req[r].pc = "locked"
\* The holder's work finishes: process_document, doc.save and the worker's
\* convert_to_html return or raise, and `async with` then leaves the section;
\* the event loop runs the waiter that release() woke.  For the call of
\* process_document, weak fairness is written out: the step is enabled
\* exactly when Transforming(r) holds and it always ends that, so
\* WF_vars(Generate_Transform(r)) is []<>~Transforming(r).
HolderProgress(r) ==
    /\ WF_vars(LockStep(r))
    /\ []<>~Transforming(r)
\* The server with one client of /events and requests that differ in what
\* matters to the lock: a generation that saves or one that raises, with or
\* without overwrite
LockPayloads ==
    {p \in ServerPayloads : p.mapping \in {<<[k |-> "{a}", v |-> <<"x">>]>>,
                                           <<[k |-> "{a}", v |-> <<CtrlChar>>]>>}}
InitLock ==
    /\ template = ServerTemplate
    /\ payload = NoPayload
    /\ mapping = <<>>
    /\ decisions = <<>>
    /\ headings = <<>>
    /\ doc = NoDoc
    /\ pc = "server"
    /\ req = [r \in Reqs |-> NoRequest]
    /\ lock = 0
    /\ waiters = <<>>
    /\ listeners = <<>>
    /\ queues = [s \in Subs |-> <<>>]
    /\ sub = [s \in Subs |-> IF s = 1 THEN "new" ELSE "gone"]
    /\ registered = [r \in Reqs |-> <<>>]
    /\ sent = [r \in Reqs |-> <<>>]
    /\ output \in {EarlierOutput, NoFile}
    /\ AuxIdle
NextLock ==
    \/ \E r \in Reqs, p \in LockPayloads : Generate_Start(r, p)
    \/ \E r \in Reqs : Acquire(r)
    \/ \E r \in Reqs : Generate_Transform(r)
    \/ \E r \in Reqs : Generate_Save(r)
    \/ \E r \in Reqs : Generate_Release(r)
    \/ \E r \in Reqs : Broadcast_Start(r)
    \/ \E r \in Reqs : Broadcast_Put(r)
    \/ \E r \in Reqs : Generate_Return(r)
    \/ \E r \in Reqs : Preview_Start(r)
    \/ \E r \in Reqs : Preview_ConvertStart(r)
    \/ \E r \in Reqs : Preview_ConvertEnd(r)
    \/ \E r \in Reqs : Preview_Release(r)
    \/ \E s \in Subs : Subscribe(s)
    \/ \E s \in Subs : Consume(s)
    \/ \E s \in Subs : Unsubscribe(s)
SpecLock == InitLock /\ [][NextLock]_vars
SpecLockFair == SpecLock /\ \A r \in Reqs : HolderProgress(r)

(***************************************************************************)
(* The vocabulary of the properties.                                       *)
(***************************************************************************)
Max(S) == CHOOSE x \in S : \A y \in S : y <= x
IsPrefix(s, t) == Len(s) <= Len(t) /\ \A i \in 1..Len(s) : s[i] = t[i]
Range(s) == {s[i] : i \in 1..Len(s)}
IsHeadingBlock(b) == IsPar(b) /\ is_heading(b)

\* The body apply_heading_decisions receives from the substitution passes
Substituted == Substitute(template, mapping).body
\* The position of the heading whose section holds block i; 0 before the
\* first heading
SectionHeading(body, i) ==
    LET hs == {j \in 1..(i - 1) : IsHeadingBlock(body[j])}
    IN  IF hs = {} THEN 0 ELSE Max(hs)
\* The decision of the heading at position j: the headings of the body and
\* the decisions are paired in order
HeadingRank(body, j) == Cardinality({k \in 1..j : IsHeadingBlock(body[k])})
DecisionOf(body, j) == decisions[HeadingRank(body, j)]
\* Block i follows a heading that an empty decision deletes
InDeletedSection(body, i) ==
    /\ SectionHeading(body, i) # 0
    /\ DecisionOf(body, SectionHeading(body, i)) = <<>>
\* The block `id` is in `body`, in the section of a heading that an empty
\* decision deletes
TrailsIn(body, id) == id \in Ids(body) /\ InDeletedSection(body, Position(body, id))

\* The SIM family of a table as the specification words it: the first row
\* that holds an indexed SIM placeholder decides, and in it the lowest index
HoldsFamily(row, i) ==
    \E c \in 1..Len(row) : \E k \in 1..Len(row[c]) : \E n \in 1..Len(SimNames) :
        Contains(row[c][k].text, SimKeyTable[i][n])
SimRows(t) == {r \in 1..Len(t.rows) : \E i \in SimRange : HoldsFamily(t.rows[r], i)}
Family(t) ==
    IF SimRows(t) = {} THEN 0
    ELSE Min({i \in SimRange : HoldsFamily(t.rows[Min(SimRows(t))], i)})
\* The five keys of family i are missing from the mapping or mapped to ""
AllEmpty(i) == \A n \in 1..Len(SimNames) : Get(mapping, SimKeyTable[i][n], <<>>) = <<>>
\* ... or mapped to a text that holds nothing but blanks
AllBlank(i) ==
    \A n \in 1..Len(SimNames) : IsBlankText(Get(mapping, SimKeyTable[i][n], <<>>))
TemplateTables == {template.body[i] : i \in {j \in 1..Len(template.body) :
                                                  IsTbl(template.body[j])}}
SimTables == {t \in TemplateTables : Family(t) # 0}

\* The placeholders the mapping gives the empty string
EmptyKeys == {k \in PlaceholderTokens : HasKey(mapping, k) /\ Get(mapping, k, <<>>) = <<>>}
HoldsEmptyKey(text) == \E k \in EmptyKeys : Contains(text, k)
TableHoldsEmptyKey(t) ==
    \E i \in 1..Len(CellParagraphs(t)) : HoldsEmptyKey(CellParagraphs(t)[i].text)
\* The body paragraphs of the template that hold such a placeholder are not in
\* the output
EmptiedParagraphsGone ==
    \A i \in 1..Len(template.body) :
        (IsPar(template.body[i]) /\ HoldsEmptyKey(template.body[i].text))
            => template.body[i].id \notin Ids(doc.body)
\* Table t of the template is in the output with its rows, cells and cell
\* paragraphs, and no cell paragraph that held such a placeholder holds it
StaysBlanked(t) ==
    \E i \in 1..Len(doc.body) :
        LET out == doc.body[i] IN
        /\ IsTbl(out) /\ out.id = t.id
        /\ Len(out.rows) = Len(t.rows)
        /\ \A r \in 1..Len(t.rows) :
             /\ Len(out.rows[r]) = Len(t.rows[r])
             /\ \A c \in 1..Len(t.rows[r]) :
                  /\ Len(out.rows[r][c]) = Len(t.rows[r][c])
                  /\ \A k \in 1..Len(t.rows[r][c]) :
                       /\ out.rows[r][c][k].id = t.rows[r][c][k].id
                       /\ HoldsEmptyKey(t.rows[r][c][k].text)
                            => ~HoldsEmptyKey(out.rows[r][c][k].text)

\* A decision that leaves its text under the heading up to the save: not the
\* keep-title sentinel, not blank, and no image marker that is rewritten
PlainDecision(decision) ==
    /\ decision # <<>>
    /\ decision # KeepTitleOnly
    /\ ~IsBlankText(decision)
    /\ payload.images_at_markers = <<>> \/ ~HasImgPrefix(decision)
\* The heading `id` is in the output and the block after it is a new
\* paragraph whose text is `text`
FollowedBy(id, text) ==
    \E i \in 1..Len(doc.body) :
        /\ i < Len(doc.body)
        /\ doc.body[i].id = id
        /\ IsPar(doc.body[i + 1])
        /\ doc.body[i + 1].id >= FirstFreshId
        /\ doc.body[i + 1].text = text

\* What the properties say of the output, given the body `before` that
\* apply_heading_decisions received
DeletedSectionsGone(before) ==
    \A j \in 1..Len(before) :
        (IsHeadingBlock(before[j]) /\ DecisionOf(before, j) = <<>>) =>
            /\ before[j].id \notin Ids(doc.body)
            /\ \A i \in 1..Len(before) :
                 (IsTbl(before[i]) /\ SectionHeading(before, i) = j)
                    => before[i].id \notin Ids(doc.body)
TwoHeadingsAndTable(before) ==
    /\ Len(before) = 3
    /\ IsHeadingBlock(before[1]) /\ IsHeadingBlock(before[2])
    /\ IsTbl(before[3])
NonEmptyDecisionsInserted(before) ==
    \A j \in 1..Len(before) :
        (IsHeadingBlock(before[j]) /\ DecisionOf(before, j) # <<>>)
            => FollowedBy(before[j].id, DecisionOf(before, j))
PlainDecisionsInserted(before) ==
    \A j \in 1..Len(before) :
        (IsHeadingBlock(before[j]) /\ PlainDecision(DecisionOf(before, j)))
            => FollowedBy(before[j].id, DecisionOf(before, j))
HeadingFollowedBy(before, text) ==
    \E j \in 1..Len(before) :
        /\ IsHeadingBlock(before[j])
        /\ DecisionOf(before, j) = text
        /\ FollowedBy(before[j].id, text)
TablesBlankedOrRemoved(before) ==
    \A t \in TemplateTables :
        TableHoldsEmptyKey(t) =>
            IF (Family(t) # 0 /\ AllBlank(Family(t))) \/ TrailsIn(before, t.id)
            THEN t.id \notin Ids(doc.body)
            ELSE StaysBlanked(t)
SimTablesByFamily(before) ==
    \A t \in SimTables :
        IF AllBlank(Family(t)) THEN t.id \notin Ids(doc.body)
        ELSE (t.id \in Ids(doc.body)) <=> ~TrailsIn(before, t.id)

\* The forms of a payload's decisions that ask for the defaults of n headings
SentinelOnly(n) == Given([i \in 1..n |-> DefaultSentinel])
ExplicitDefaults(n, m) ==
    Given([i \in 1..n |-> fill_with_mapping(DEFAULT_ANALYSIS_TEMPLATE, m)])
TemplateHeadings == collect_headings_in_order(template)

\* The server's requests
InLockSection(r) ==
    req[r].pc \in {"locked", "transformed", "saved", "raised", "reading", "converted"}
GenerateInSection(r) == req[r].kind = "generate" /\ InLockSection(r)
HasSaved(r) ==
    req[r].kind = "generate" /\ req[r].pc \in {"saved", "broadcast", "putting", "done"}
\* The document the request r produces when it is the only request
Alone(r) ==
    process_document(
        template, RequestMapping(req[r].payload, template),
        Given(ResolveDecisions(req[r].payload.decisions, TemplateHeadings,
                               RequestMapping(req[r].payload, template))),
        req[r].payload.heading_content, req[r].payload.images_at_markers)
ReadingOutput(r) ==
    req[r].kind = "preview" /\ req[r].pc = "reading" /\ req[r].target = "output"

(***************************************************************************)
(* The properties.                                                         *)
(***************************************************************************)
\* C1: at most one /generate request is inside the doc_lock section at any
\* time; an output file that exists is the one an earlier run left or the
\* document one saved request produces alone from its own mapping; and once
\* every request is a /generate that has returned, it is the latter.
C1_GenerateSerialized ==
    /\ \A r1, r2 \in Reqs : (GenerateInSection(r1) /\ GenerateInSection(r2)) => r1 = r2
    /\ output.exists =>
         \/ output = EarlierOutput
         \/ \E r \in Reqs : HasSaved(r) /\ output.content = Alone(r)
    /\ (\A r \in Reqs : req[r].kind = "generate" /\ req[r].pc = "done") =>
         /\ output.exists
         /\ \E r \in Reqs : output.content = Alone(r)

\* One request has saved, inside the section, while another /generate with
\* another mapping waits for the lock
C1_Witness ==
    \E r1, r2 \in Reqs :
        /\ req[r1].kind = "generate" /\ req[r1].pc = "saved"
        /\ req[r2].kind = "generate" /\ req[r2].pc = "acquire"
        /\ req[r1].mapping # req[r2].mapping
        /\ output.content = Alone(r1)
        /\ output.content # Alone(r2)

\* C2: when a /generate request, the only one the server has received, has
\* raised before the save, the output file is the one the earlier run left,
\* as the request found it.
C2_FailureKeepsOutput ==
    \A r \in Reqs :
        (/\ req[r].kind = "generate"
         /\ req[r].pc \in {"raised", "failed"}
         /\ \A q \in Reqs \ {r} : req[q].kind # "generate")
            => output = EarlierOutput

\* C3, as stated: after process_document, every body paragraph that held a
\* placeholder mapped to "" is absent, and every table with a cell that held
\* one is present with its rows and cells, the placeholder gone from the cell.
C3_EmptyValue_Original ==
    pc = "saved" =>
        /\ EmptiedParagraphsGone
        /\ \A t \in TemplateTables : TableHoldsEmptyKey(t) => StaysBlanked(t)

\* C3, amended: the table stays, its cells blanked, unless it is removed as
\* a SIM table with no value or as a table that follows a deleted heading;
\* it is then absent.
C3_EmptyValue ==
    pc = "saved" => EmptiedParagraphsGone /\ TablesBlankedOrRemoved(Substituted)

\* A paragraph and a table cell held {a}, mapped to "": the paragraph is gone,
\* the table is there with an empty cell
C3_Witness ==
    /\ pc = "saved"
    /\ Get(mapping, "{a}", <<"?">>) = <<>>
    /\ \E i, j \in 1..Len(template.body) :
         /\ IsPar(template.body[i]) /\ template.body[i].text = <<"{a}">>
         /\ template.body[i].id \notin Ids(doc.body)
         /\ IsTbl(template.body[j]) /\ Family(template.body[j]) = 0
         /\ StaysBlanked(template.body[j])
         /\ template.body[j].id \in Ids(doc.body)

\* C4, as stated: a table of SIM family i is absent from the output when the
\* five keys of the family are missing or mapped to "", and present when one
\* of them is mapped to a value that is not "".
C4_SimTables_Original ==
    pc = "saved" =>
        \A t \in SimTables :
            IF AllEmpty(Family(t)) THEN t.id \notin Ids(doc.body)
            ELSE t.id \in Ids(doc.body)

\* C4, amended: the table is absent when every key of its family is missing
\* or mapped to a value that is empty once stripped; otherwise it is present
\* unless it follows a heading that an empty decision deletes.
C4_SimTables ==
    pc = "saved" => SimTablesByFamily(Substituted)

\* A SIM table is kept for the value of a key of its family that the table
\* does not hold, while the key it holds is mapped to ""
C4_Witness ==
    /\ pc = "saved"
    /\ \E t \in SimTables :
         /\ Family(t) = 1
         /\ Get(mapping, "{iccid1}", <<"?">>) = <<>>
         /\ Get(mapping, "{imsi1}", <<>>) = <<"x">>
         /\ t.id \in Ids(doc.body)

\* C5: after apply_heading_decisions, a body heading whose decision is empty
\* is absent, and so is every table between it and the next heading or the
\* end of the document.
C5_EmptyDecisionDeletes ==
    pc \in {"decided", "saved"} => DeletedSectionsGone(Substituted)

\* Two consecutive headings with empty decisions and a table after them:
\* nothing is left
C5_Witness ==
    /\ pc = "decided"
    /\ TwoHeadingsAndTable(Substituted)
    /\ decisions = << <<>>, <<>> >>
    /\ doc.body = <<>>

\* C6, as stated: in the output, a body heading whose decision is a non-empty
\* string is followed at once by a new paragraph that holds that string.
C6_DecisionInserted_Original ==
    pc = "saved" => NonEmptyDecisionsInserted(Substituted)

\* C6, amended: it is, when the decision is not "__KEEP_TITLE_ONLY__", holds
\* more than blanks, and holds no image marker while images_at_markers is
\* given.
C6_DecisionInserted ==
    pc = "saved" => PlainDecisionsInserted(Substituted)

\* A heading with the decision "w" and content blocks of its own: "w" comes
\* first under the heading
C6_Witness ==
    /\ pc = "saved"
    /\ payload.heading_content # <<>>
    /\ HeadingFollowedBy(Substituted, <<"w">>)

\* C7: while the worker of a /preview reads the output file, no step changes
\* that file; and a step that changes the output file is taken by a /generate
\* that holds doc_lock.
C7_PreviewSerialized ==
    [][/\ (\E r \in Reqs : ReadingOutput(r)) => output' = output
       /\ output' # output => (lock # 0 /\ req[lock].kind = "generate")]_vars

\* C8: the broadcast of a request puts "updated" once to each subscriber of
\* the list it copied, in order and to no other; a request that has not saved
\* or has failed has put nothing; a request that has returned has put to every
\* subscriber of that list; a queue holds no more messages than the broadcasts
\* that put to it.
C8_BroadcastOnce ==
    /\ \A r \in Reqs :
         /\ IsPrefix(sent[r], registered[r])
         /\ Cardinality(Range(sent[r])) = Len(sent[r])
         /\ sent[r] # <<>> => (req[r].kind = "generate" /\ req[r].pc \in {"putting", "done"})
         /\ (req[r].kind = "generate" /\ req[r].pc = "done") => sent[r] = registered[r]
    /\ \A s \in Subs :
         /\ Len(queues[s]) <= Cardinality({r \in Reqs : s \in Range(sent[r])})
         /\ \A i \in 1..Len(queues[s]) : queues[s][i] = "updated"

\* A request has returned after putting to the one subscriber of the moment;
\* a subscriber that came later has an empty queue
C8_Witness ==
    \E r \in Reqs : \E s1, s2 \in Subs :
        /\ req[r].kind = "generate" /\ req[r].pc = "done"
        /\ registered[r] = <<s1>> /\ sent[r] = <<s1>>
        /\ queues[s1] = <<"updated">>
        /\ s2 # s1 /\ sub[s2] = "listening" /\ queues[s2] = <<>>
        /\ \A q \in Reqs \ {r} : req[q].kind = "none"

\* C9: a request whose decisions are one sentinel per heading, or the default
\* phrase of every heading, or no list, resolves to the default decisions, and
\* its output is the output of process_document without a decisions override.
C9_DefaultsAgree ==
    (payload.decisions \in {NoDecisions, SentinelOnly(Len(TemplateHeadings)),
                            ExplicitDefaults(Len(TemplateHeadings), mapping)})
        => /\ pc # "received" =>
                decisions = default_heading_decisions(TemplateHeadings, mapping)
           /\ pc = "saved" =>
                doc = process_document(template, mapping, NoDecisions,
                                       payload.heading_content,
                                       payload.images_at_markers)

\* A template of two headings, a request with two sentinels: saved
C9_Witness ==
    /\ pc = "saved"
    /\ Len(TemplateHeadings) = 2
    /\ payload.decisions = SentinelOnly(2)
    /\ decisions = << <<>>, <<>> >>

\* C10: the resolved list of a request that gives a decisions list has one
\* decision per heading of the template: the default where the list holds the
\* sentinel or has ended, the entry of the list otherwise.
C10_ResolvedList ==
    (pc # "received" /\ payload.decisions.given) =>
        /\ Len(decisions) = Len(TemplateHeadings)
        /\ \A i \in 1..Len(decisions) :
             decisions[i] =
                IF i > Len(payload.decisions.list)
                   \/ payload.decisions.list[i] = DefaultSentinel
                THEN default_heading_decisions(TemplateHeadings, mapping)[i]
                ELSE payload.decisions.list[i]

\* One heading, a list of a sentinel and a text: the default is resolved for
\* the heading, the text is left over
C10_Witness ==
    /\ pc = "prepared"
    /\ Len(TemplateHeadings) = 1
    /\ payload.decisions = Given(<<DefaultSentinel, <<"w">> >>)
    /\ decisions = << <<>> >>

\* The headings apply_heading_decisions encounters in `body`
BodyHeadings(body) == SelectSeq(body, IsHeadingBlock)

\* C11: when apply_heading_decisions runs, there are as many decisions as
\* headings it encounters, and the heading that is the i-th of the template
\* is given the decision resolved for the i-th heading.
C11_DecisionsAligned ==
    pc = "substituted" =>
        /\ Len(decisions) = Len(BodyHeadings(doc.body))
        /\ \A i \in 1..Len(TemplateHeadings) :
             \A j \in 1..Len(doc.body) :
                (IsHeadingBlock(doc.body[j]) /\ doc.body[j].id = TemplateHeadings[i].id)
                    => DecisionOf(doc.body, j) = decisions[i]

\* The placeholders of the template that the request's mapping does not give
Keys(m) == {m[i].k : i \in 1..Len(m)}
MissingKeys == Range(find_placeholders_in_order(template)) \ Keys(payload.mapping)
HoldsMissingKey(text) == \E k \in MissingKeys : Contains(text, k)
TableHoldsMissingKey(t) ==
    \E i \in 1..Len(CellParagraphs(t)) : HoldsMissingKey(CellParagraphs(t)[i].text)
\* generate's mapping: the request's items as given, then each missing
\* placeholder with ""
MissingKeysDefaulted ==
    /\ IsPrefix(payload.mapping, mapping)
    /\ Keys(mapping) = Keys(payload.mapping) \cup MissingKeys
    /\ \A k \in MissingKeys : Get(mapping, k, <<"?">>) = <<>>
MissingParagraphsGone ==
    \A i \in 1..Len(template.body) :
        (IsPar(template.body[i]) /\ HoldsMissingKey(template.body[i].text))
            => template.body[i].id \notin Ids(doc.body)
\* Table t is in the output and none of its cells holds a missing placeholder
MissingCellsBlank(t) ==
    \E i \in 1..Len(doc.body) :
        /\ doc.body[i].id = t.id
        /\ Len(CellParagraphs(doc.body[i])) = Len(CellParagraphs(t))
        /\ \A c \in 1..Len(CellParagraphs(t)) :
             ~HoldsMissingKey(CellParagraphs(doc.body[i])[c].text)
MissingTablesBlankedOrRemoved(before) ==
    \A t \in TemplateTables :
        TableHoldsMissingKey(t) =>
            IF (Family(t) # 0 /\ AllBlank(Family(t))) \/ TrailsIn(before, t.id)
            THEN t.id \notin Ids(doc.body)
            ELSE MissingCellsBlank(t)

\* C12, as stated: a placeholder of the template that the request does not
\* map is mapped to "", the supplied items keep their values, the request does
\* not fail, the body paragraphs that hold the placeholder are removed and the
\* table cells that hold it are blank in the output.
C12_MissingKeys_Original ==
    /\ pc # "failed"
    /\ pc # "received" => MissingKeysDefaulted
    /\ pc = "saved" =>
         /\ MissingParagraphsGone
         /\ \A t \in TemplateTables : TableHoldsMissingKey(t) => MissingCellsBlank(t)

\* C12, amended: the table cells are blank unless their table is removed, as
\* a SIM table with no value or as a table that follows a deleted heading.
C12_MissingKeys ==
    /\ pc # "failed"
    /\ pc # "received" => MissingKeysDefaulted
    /\ pc = "saved" => MissingParagraphsGone /\ MissingTablesBlankedOrRemoved(Substituted)

\* {a} is missing from a request that maps {iccid1}: the paragraph of {a} is
\* gone, the cell of {a} is blank, {iccid1} has kept its value
C12_Witness ==
    /\ pc = "saved"
    /\ payload.mapping = <<[k |-> "{iccid1}", v |-> <<"x">>]>>
    /\ "{a}" \in MissingKeys
    /\ Get(mapping, "{iccid1}", <<>>) = <<"x">>
    /\ \E i, j \in 1..Len(template.body) :
         /\ IsPar(template.body[i]) /\ template.body[i].text = <<"{a}">>
         /\ template.body[i].id \notin Ids(doc.body)
         /\ IsTbl(template.body[j]) /\ Family(template.body[j]) = 0
         /\ MissingCellsBlank(template.body[j])

\* The placeholders of a document by first occurrence when the body is read
\* in document order, each table where it stands among the paragraphs
ScanTexts(ps) == Concat([i \in 1..Len(ps) |-> FindAll(ps[i].text)])
BodyInDocumentOrder(d) ==
    Concat([i \in 1..Len(d.body) |->
               IF IsPar(d.body[i]) THEN <<d.body[i]>> ELSE CellParagraphs(d.body[i])])
DocumentOrderScan(d) ==
    Dedup(ScanTexts(d.header) \o ScanTexts(HeaderCellParagraphs(d))
          \o ScanTexts(BodyInDocumentOrder(d)), {})
KeysInOrder(m) == [i \in 1..Len(m) |-> m[i].k]

\* C13: the placeholders find_placeholders_in_order returns, which generate
\* appends to an empty mapping in that order, are the distinct placeholders of
\* the document by first occurrence in document order, each once.
C13_ScanInDocumentOrder ==
    (pc # "received" /\ payload.mapping = <<>>) =>
        /\ Cardinality(Keys(mapping)) = Len(mapping)
        /\ KeysInOrder(mapping) = DocumentOrderScan(template)

\* The placeholders a new scan finds that the mapping maps to a value other
\* than ""
RemainingMapped(d) ==
    {k \in Range(find_placeholders_in_order(d)) : Get(mapping, k, <<>>) # <<>>}
\* No value of the mapping holds a placeholder that the mapping maps to a
\* value other than ""
NoChainedValue ==
    \A i, j \in 1..Len(mapping) : mapping[j].v # <<>> => ~Contains(mapping[i].v, mapping[j].k)

LiteralMarker(key) == "[[IMG:" \o key \o "]]"
MarkerKeys == {"k", "j"}
IsLiteralMarker(tok) == \E key \in MarkerKeys : tok = LiteralMarker(key)
KeyOf(tok) == CHOOSE key \in MarkerKeys : tok = LiteralMarker(key)
NoEntry(iam, key) == Get(iam, key, "") = ""
MissingFile(iam, key) == ~NoEntry(iam, key) /\ ~PathExists(Get(iam, key, ""))
GoodFile(iam, key) ==
    /\ ~NoEntry(iam, key)
    /\ PathExists(Get(iam, key, ""))
    /\ ~PictureRaises(Get(iam, key, ""))
\* Paragraph q of the output is paragraph p of the template with its markers
\* treated as the claim says; the text around them is where it was
MarkersTreated(p, q, iam) ==
    /\ Len(q.text) = Len(p.text)
    /\ \A i \in 1..Len(p.text) :
         IF IsLiteralMarker(p.text[i])
         THEN /\ NoEntry(iam, KeyOf(p.text[i])) => q.text[i] = p.text[i]
              /\ MissingFile(iam, KeyOf(p.text[i]))
                   => /\ q.text[i] # p.text[i]
                      /\ q.text[i] = "[[IMG:" \o KeyOf(p.text[i]) \o " - INTROUVABLE]]"
              /\ GoodFile(iam, KeyOf(p.text[i]))
                   => q.text[i] = Picture(Get(iam, KeyOf(p.text[i]), ""))
         ELSE q.text[i] = p.text[i]
AllMarkersTreated(before, after, iam) ==
    \A i \in 1..Len(iter_all_paragraphs(before)), j \in 1..Len(iter_all_paragraphs(after)) :
        iter_all_paragraphs(before)[i].id = iter_all_paragraphs(after)[j].id
            => MarkersTreated(iter_all_paragraphs(before)[i],
                              iter_all_paragraphs(after)[j], iam)

\* C15: in the saved document, a marker [[IMG:key]] of a body or table-cell
\* paragraph whose key has no entry in the marker map is still there as the
\* literal text, with the text around it in the original order; a marker
\* whose entry names a file that does not exist is replaced by the
\* INTROUVABLE annotation, and the other markers of the paragraph are still
\* processed.
C15_MarkerFallbacks ==
    pc = "saved" => AllMarkersTreated(template, doc, payload.images_at_markers)

\* k names a missing file and j has no entry: the annotation for k, the
\* literal marker for j, the words around them in place
C15_Witness ==
    /\ pc = "saved"
    /\ MissingFile(payload.images_at_markers, "k")
    /\ NoEntry(payload.images_at_markers, "j")
    /\ \E i \in 1..Len(doc.body) :
         /\ IsPar(doc.body[i])
         /\ doc.body[i].text = <<"see", "[[IMG:k - INTROUVABLE]]", "and", "[[IMG:j]]">>

\* What a content block shows once inserted
Shown(block) == IF block.type = "text" THEN block.content ELSE <<Picture(block.src)>>
\* A block the pass can insert: a text, or an image that is there and embeds
Insertable(block) ==
    IF block.type = "text" THEN block.content # <<>>
    ELSE PathExists(block.src) /\ ~PictureRaises(block.src)
BlocksOf(hc) == UNION {Range(hc[i].v) : i \in 1..Len(hc)}
\* The places (heading, position in its list) where heading_content asks for
\* `block`
Placed(before, hc, block) ==
    UNION {{<<i, n>> : n \in {n \in 1..Len(Get(hc, Strip(before.body[i].text), <<>>)) :
                                  Get(hc, Strip(before.body[i].text), <<>>)[n] = block}} :
           i \in {i \in 1..Len(before.body) : IsHeadingBlock(before.body[i])}}
\* The paragraphs the pass added that show `text`
NewWith(before, after, text) ==
    {i \in 1..Len(after.body) :
        IsPar(after.body[i]) /\ after.body[i].id >= before.next /\ after.body[i].text = text}
OthersProcessed(before, after, hc, iam) ==
    /\ \A block \in BlocksOf(hc) :
         IF Insertable(block)
         THEN Cardinality(NewWith(before, after, Shown(block)))
                  = Cardinality(Placed(before, hc, block))
         ELSE NewWith(before, after, Shown(block)) = {}
    /\ \A i \in 1..Len(before.body) : \E j \in 1..Len(after.body) :
         after.body[j].id = before.body[i].id
    /\ AllMarkersTreated(before, after, iam)

\* C16: whatever image of a heading content block or of a marker is missing
\* or fails to embed, the last pass of process_document does not raise: it
\* reaches the save, every block that can be inserted is inserted once per
\* heading that asks for it, every paragraph is kept and every other marker
\* is treated.
C16_ImageFailureNeverAborts ==
    [][pc = "decided" =>
          /\ pc' = "saved"
          /\ OthersProcessed(doc, doc', payload.heading_content,
                             payload.images_at_markers)]_vars

\* An image that cannot be embedded before a text block, a marker whose file
\* is missing before one whose file is there: the text and the picture are in
\* the saved document
C16_Witness ==
    /\ pc = "saved"
    /\ payload.heading_content
         = <<[k |-> <<"T">>, v |-> <<ImageBlock(ImgCorrupt), TextBlock(<<"c">>)>>]>>
    /\ MissingFile(payload.images_at_markers, "k")
    /\ GoodFile(payload.images_at_markers, "j")
    /\ \E i \in 1..Len(doc.body) - 1 :
         /\ IsHeadingBlock(doc.body[i])
         /\ doc.body[i + 1].kind = "p" /\ doc.body[i + 1].text = <<"c">>
    /\ \E i \in 1..Len(doc.body) :
         /\ IsPar(doc.body[i])
         /\ doc.body[i].text = <<"see", "[[IMG:k - INTROUVABLE]]", "and", Picture(ImgOk)>>

\* The anchor of the heading at position i of the body: the paragraph that
\* follows it in the body's paragraphs when that one is not a heading, else
\* the heading
FollowingParagraphs(body, i) == SelectSeq(SubSeq(body, i + 1, Len(body)), IsPar)
AnchorOf(body, i) ==
    IF FollowingParagraphs(body, i) # <<>> /\ ~is_heading(FollowingParagraphs(body, i)[1])
    THEN FollowingParagraphs(body, i)[1].id
    ELSE body[i].id
\* The blocks of a list that get inserted, in the order of the list
InsertedOf(blocks) == SelectSeq(blocks, Insertable)
\* `shown` stands in `body` right after the element `id`, as new paragraphs
RightAfter(body, id, shown, first_new) ==
    /\ Position(body, id) + Len(shown) <= Len(body)
    /\ \A n \in 1..Len(shown) :
         /\ IsPar(body[Position(body, id) + n])
         /\ body[Position(body, id) + n].id >= first_new
         /\ body[Position(body, id) + n].text = Shown(shown[n])
BlocksAfterAnchors(before, after, hc) ==
    \A i \in 1..Len(before.body) :
        (IsHeadingBlock(before.body[i]) /\ Get(hc, Strip(before.body[i].text), <<>>) # <<>>)
            => RightAfter(after.body, AnchorOf(before.body, i),
                          InsertedOf(Get(hc, Strip(before.body[i].text), <<>>)),
                          before.next)

Answered == api.route # ""
UnknownKey == api.selected # "" /\ api.selected \notin Range(TemplateNames)
SourceMissing == api.selected \in Range(TemplateNames) /\ api.selected \notin fs.sources
NoTemplateAtAll == fs.sources = {}
\* The template the request is about: the one selected, or the first whose
\* source exists
Firsts == {n \in Range(TemplateNames) :
              \E i \in 1..Len(TemplateNames) :
                  /\ TemplateNames[i] = n /\ n \in fs.sources
                  /\ \A j \in 1..(i - 1) : TemplateNames[j] \notin fs.sources}
RequestedTemplates == IF api.selected # "" THEN {api.selected} ELSE Firsts
OutputMissing == \A n \in RequestedTemplates : n \notin fs.outputs
ResolutionFails == UnknownKey \/ SourceMissing \/ NoTemplateAtAll

\* C18, as stated: 404 for an unknown key, for a missing source file, when no
\* template file exists at all, and for /download and /preview when the
\* output file is missing.
C18_NotFound_Original ==
    Answered =>
        /\ ResolutionFails => api.status = NotFound
        /\ (api.route \in {"download", "preview"} /\ OutputMissing)
               => api.status = NotFound

\* C18, amended: 404 for an unknown key, for a missing source file, when no
\* template file exists at all, and for /download when the output file is
\* missing; /preview and /preview/html with a missing output file answer 200,
\* from the source of the template, whenever the template is resolved.
C18_NotFound ==
    Answered =>
        /\ ResolutionFails => api.status = NotFound
        /\ (api.route = "download" /\ OutputMissing) => api.status = NotFound
        /\ (api.route \in {"preview", "preview_html"} /\ ~ResolutionFails)
               => api.status = 200

\* /download of a template whose source is there and whose output is not
C18_Witness ==
    /\ api.route = "download"
    /\ api.selected = "test2"
    /\ "test2" \in fs.sources
    /\ "test2" \notin fs.outputs
    /\ api.status = NotFound

\* C19: the call of the integration test (a mapping override, no decisions
\* override, the image options images_after_headings, images_after_paragraphs,
\* images_at_markers, images_after_headings_sizes, images_at_markers_sizes,
\* image_texts) is accepted: it is not answered by a TypeError before the
\* body of process_document runs.
C19_TestCallAccepted ==
    call.keywords = TestKeywords => call.outcome # "TypeError"

\* A turn of the loop answered by the back token, and one answered otherwise
BackAnswer == pc = "prompting" /\ backs' = backs + 1
OtherAnswer == pc = "prompting" /\ pc' = "prompting" /\ backs' = backs /\ idx' # idx
\* At the start of each turn there are as many decisions as headings passed
DecisionsMatchIndex == pc = "prompting" => Len(decisions) = idx
\* What the loop returns: one decision per heading, none the back token
OnePerHeading ==
    pc = "collected" =>
        /\ Len(decisions) = Len(headings)
        /\ \A i \in 1..Len(decisions) : decisions[i] # BACK_TOKEN

\* C20: at the start of every turn of the loop the number of decisions is the
\* heading index; a back answer at index > 0 drops the last decision and
\* goes back one heading; a back answer at the first heading changes nothing
\* and prompts again; any other answer becomes the decision of the current
\* heading, after those of the headings before it; and once the user stops
\* answering back the loop ends, with one decision per heading, none of them
\* the back token.
C20_BackAndForth ==
    /\ []DecisionsMatchIndex
    /\ [][(BackAnswer /\ idx > 0)
             => /\ decisions' = SubSeq(decisions, 1, Len(decisions) - 1)
                /\ Len(decisions') = Len(decisions) - 1
                /\ idx' = idx - 1]_vars
    /\ [][(BackAnswer /\ idx = 0)
             => /\ decisions' = decisions
                /\ idx' = 0
                /\ pc' = "prompting"]_vars
    /\ [][OtherAnswer
             => /\ idx' = idx + 1
                /\ Len(decisions') = idx + 1
                /\ SubSeq(decisions', 1, idx) = decisions
                /\ decisions'[idx + 1] # BACK_TOKEN]_vars
    /\ []OnePerHeading
    /\ <>(pc = "collected")

\* The loop has returned the decisions of three headings after the user went
\* back as often as the bound allows
C20_Witness ==
    /\ pc = "collected"
    /\ backs = MaxBacks
    /\ Len(headings) = MaxBlocks
    /\ Len(decisions) = Len(headings)
    /\ decisions[1] = <<"w">>

\* The step of apply_heading_decisions, from the substituted document
DecisionsApplied == pc = "substituted" /\ pc' = "decided"
\* A paragraph that is no heading, in the section of a heading that an empty
\* decision deletes
PlainInDeletedSection(body, i) ==
    IsPar(body[i]) /\ ~is_heading(body[i]) /\ InDeletedSection(body, i)
\* Those paragraphs are in `after` as they were, in the order they had
SectionParagraphsKept(before, after) ==
    /\ \A i \in 1..Len(before) :
         PlainInDeletedSection(before, i)
            => \E j \in 1..Len(after) : after[j] = before[i]
    /\ \A i1, i2 \in 1..Len(before) :
         (i1 < i2 /\ PlainInDeletedSection(before, i1) /\ PlainInDeletedSection(before, i2))
            => \E j1, j2 \in 1..Len(after) :
                  j1 < j2 /\ after[j1] = before[i1] /\ after[j2] = before[i2]
\* A block that is gone is a deleted heading or a table of its own section:
\* a deletion removes nothing at or after the next heading
OnlyOwnSectionRemoved(before, after) ==
    \A i \in 1..Len(before) :
        (\A j \in 1..Len(after) : after[j].id # before[i].id)
            => \/ IsHeadingBlock(before[i]) /\ DecisionOf(before, i) = <<>>
               \/ IsTbl(before[i]) /\ InDeletedSection(before, i)

\* C21: when apply_heading_decisions deletes a heading, the paragraphs
\* between it and the next heading that are no headings stay where they are,
\* unchanged and in their order, and nothing at or after the next heading is
\* removed by that deletion.
C21_DeletionFrame ==
    [][DecisionsApplied =>
          /\ SectionParagraphsKept(doc.body, doc'.body)
          /\ OnlyOwnSectionRemoved(doc.body, doc'.body)]_vars

\* A deleted heading, its paragraph, and a kept heading: the paragraph and
\* the second heading are what is left
C21_Witness ==
    /\ pc = "decided"
    /\ decisions = << <<>>, KeepTitleOnly >>
    /\ Len(template.body) = 3
    /\ IsHeadingBlock(template.body[1]) /\ IsHeadingBlock(template.body[3])
    /\ doc.body = <<template.body[2], template.body[3]>>
    /\ IsPar(doc.body[1]) /\ ~is_heading(doc.body[1])

\* Every heading has the same decision: the default template with the
\* mapping substituted into it
SameDefaultDecision ==
    /\ Len(decisions) = Len(headings)
    /\ \A i \in 1..Len(decisions) :
         decisions[i] = fill_with_mapping(DEFAULT_ANALYSIS_TEMPLATE, mapping)
\* That decision is the deletion: no heading of `before` and no table that
\* trails one is in the document
AllDecisionsDelete == \A i \in 1..Len(decisions) : decisions[i] = <<>>
HeadingsAndTablesGone(before) ==
    \A j \in 1..Len(before) :
        \/ IsHeadingBlock(before[j]) /\ before[j].id \notin Ids(doc.body)
        \/ IsTbl(before[j]) /\ SectionHeading(before, j) # 0 /\ before[j].id \notin Ids(doc.body)
        \/ ~IsHeadingBlock(before[j]) /\ ~(IsTbl(before[j]) /\ SectionHeading(before, j) # 0)
NoHeadingLeft == \A i \in 1..Len(doc.body) : ~IsHeadingBlock(doc.body[i])
NoEmptyKey == ~HasKey(mapping, "")

\* C22, as stated: without a decisions override every heading gets the
\* default template filled with the mapping, and for every mapping that is
\* the deletion: no body heading and no table trailing one is in the output.
C22_DefaultDeletes_Original ==
    pc \in {"decided", "saved"} =>
        /\ SameDefaultDecision
        /\ AllDecisionsDelete
        /\ NoHeadingLeft
        /\ HeadingsAndTablesGone(Substituted)

\* C22, amended: ... and for every mapping that has no empty string among
\* its keys that is the deletion.
C22_DefaultDeletes ==
    pc \in {"decided", "saved"} =>
        /\ SameDefaultDecision
        /\ NoEmptyKey =>
              /\ AllDecisionsDelete
              /\ NoHeadingLeft
              /\ HeadingsAndTablesGone(Substituted)

\* A heading, its table and a paragraph, {a} mapped to "x": the paragraph is
\* all that is saved
C22_Witness ==
    /\ pc = "saved"
    /\ NoEmptyKey
    /\ Get(mapping, "{a}", <<>>) = <<"x">>
    /\ Len(template.body) = 3
    /\ IsHeadingBlock(template.body[1]) /\ IsTbl(template.body[2])
    /\ decisions = << <<>> >>
    /\ Len(doc.body) = 1
    /\ doc.body[1].id = template.body[3].id /\ doc.body[1].text = <<"x">>

\* The lock is held by a request that is inside its guarded section, and by
\* no request that has left it
HeldInsideOnly ==
    /\ lock # 0 => InLockSection(lock)
    /\ \A r \in Reqs : InLockSection(r) => lock = r
Waiting(r) == req[r].pc = "acquire"

\* C23: doc_lock is released on every exit from the guarded sections of
\* /generate and /preview, an exception of process_document or of
\* convert_to_html included; so, when each holder's work finishes, every
\* request that waits for the lock gets it, whether or not a generation
\* failed before.
C23_LockReleased ==
    /\ []HeldInsideOnly
    /\ \A r \in Reqs : Waiting(r) ~> (lock = r)

\* A generation has failed and the other request holds the lock
C23_Witness ==
    \E r, q \in Reqs :
        /\ r # q
        /\ req[r].kind = "generate" /\ req[r].pc = "failed"
        /\ lock = q /\ InLockSection(q)

\* The keys find_image_markers_in_order reports that come from paragraph p
ReportedFor(d, p) ==
    {key \in Range(find_image_markers_in_order(d)) :
        \E i \in 1..Len(p.text) : IsMarker(p.text[i]) /\ MarkerKey(p.text[i]) = key}
\* Paragraph q of the output shows the picture of `key` wherever paragraph p
\* of the template holds a marker of that key
ReplacedByImage(p, q, iam, key) ==
    /\ Len(q.text) = Len(p.text)
    /\ \A i \in 1..Len(p.text) :
         IsMarker(p.text[i]) /\ MarkerKey(p.text[i]) = key
             => q.text[i] = Picture(Get(iam, key, ""))

\* C24: the scanner and the injector agree on what a marker is: in the
\* saved document, every marker key that find_image_markers_in_order
\* reports for a body or table-cell paragraph of the template, and whose
\* entry of the marker map is an image file that is there, stands replaced
\* by that image in that paragraph, whatever whitespace the marker holds.
C24_ScannerInjectorAgree ==
    pc = "saved" =>
        \A i \in 1..Len(iter_all_paragraphs(template)),
           j \in 1..Len(iter_all_paragraphs(doc)) :
            iter_all_paragraphs(template)[i].id = iter_all_paragraphs(doc)[j].id
                => \A key \in ReportedFor(template, iter_all_paragraphs(template)[i]) :
                       GoodFile(payload.images_at_markers, key)
                           => ReplacedByImage(iter_all_paragraphs(template)[i],
                                              iter_all_paragraphs(doc)[j],
                                              payload.images_at_markers, key)

====
